---- MODULE Spec2Model ----
(***************************************************************************)
(* A model of the query engine's expression algebra (Or.Apply,             *)
(* Or.FilterCovers, ExpressionBase.Value), of the planner's predicate      *)
(* classifier (ClassifyExpr) and of the plan builder (Build).              *)
(*                                                                         *)
(* Each subsystem has its own specification (SpecOr, SpecCovers, ...): the *)
(* variables of the other subsystems stay at their idle values.            *)
(***************************************************************************)
EXTENDS Integers, Sequences, FiniteSets, TLC

VARIABLES
    args,           \* Or.Apply: the argument values (args ...value.Value)
    orResult,       \* Or.Apply: the value returned, NoValue before the call
    operandCovers,  \* Or.FilterCovers: per operand, the covers its FilterCovers adds
    covers,         \* Or.FilterCovers: the caller's cover map
    coversIn,       \* Or.FilterCovers: the caller's cover map as passed in
    coversDone,     \* Or.FilterCovers: TRUE once the call has returned
    node,           \* ExpressionBase: volatile, conditional, the children, Evaluate's outcome
    value,          \* ExpressionBase.value: Unset (nil pointer), NoValue (&_NIL_VALUE) or a value
    valueRet,       \* ExpressionBase.Value(): what the last call returned, Unset before a call
    evaluations,    \* calls of expr.Evaluate since construction or the last ResetValue
    pred,           \* ClassifyExpr: the predicate to classify (its argument expr)
    isOnclause,     \* ClassifyExpr: TRUE for an ON clause, FALSE for a WHERE clause
    baseKeyspaces,  \* ClassifyExpr: per keyspace, its filters, joinfilters and PlanDone()
    classifier,     \* the exprClassifier's recursion fields when its visit has ended
    classified,     \* TRUE once ClassifyExpr has returned
    stmt,           \* Build: the algebra node to plan
    builder,        \* the builder: projectInitial, children, subChildren
    plan,           \* Build: the operator returned, NilOp if none
    built,          \* Build: "no" before the call, then "ok", "error" or "panic"
    scanPlan,       \* IndexScan2: what the plan and the index hold
    conn,           \* IndexScan2: the datastore.IndexConnection
    producer,       \* IndexScan2: the goroutine running IndexScan2.scan
    indexScan,      \* IndexScan2: the operator and its base
    distinctPlan,   \* DistinctScan: the items of the inner scan and the limit
    inner,          \* DistinctScan: the inner scan and its item channel
    distinctScan,   \* DistinctScan: the operator and its base
    nestPlan,       \* NLNest: the plan (outer, ON clause) and the outer items
    nestChild,      \* NLNest: the inner child operator (this.child)
    nest,           \* NLNest: the operator and its base
    streamPlan,     \* Stream: the input items and the call Result refuses
    stream,         \* Stream: the operator, its base and the request sink
    auditInfo,      \* audit: the datastore.AuditInfo of the auditor
    auditable,      \* audit: the event handed to Submit
    recordedEvents, \* audit: the entries the auditor was given
    submitted,      \* audit: TRUE once Submit has returned
    coveredNode,    \* CoveredBy: the node, its children and the options passed
    coveredRun,     \* CoveredBy: the value returned and the children's returns
    cbStore,        \* cbConfigStore: its RWMutex and its cached name and state
    cluster,        \* the pool services the cluster reports
    caller,         \* per request goroutine, its position in State() or doConfig
    localConfig,    \* var localConfig of the admin endpoint, with its Mutex
    spanInput,      \* evalSpan2: the plan's spans (ps plan.Spans2)
    spanResult,     \* evalSpan2: the spans, the empty flag and the error returned
    authRequest,    \* Authorize: the credentials and the privileges asked
    authResult      \* Authorize: "none" before the call, then "ok" or "error"

vars == <<args, orResult, operandCovers, covers, coversIn, coversDone,
          node, value, valueRet, evaluations,
          pred, isOnclause, baseKeyspaces, classifier, classified,
          stmt, builder, plan, built,
          scanPlan, conn, producer, indexScan,
          distinctPlan, inner, distinctScan,
          nestPlan, nestChild, nest,
          streamPlan, stream,
          auditInfo, auditable, recordedEvents, submitted,
          coveredNode, coveredRun,
          cbStore, cluster, caller, localConfig,
          spanInput, spanResult, authRequest, authResult>>

----
(***************************************************************************)
(* value.Value: a tagged value. The payload v is an integer for every type *)
(* (booleans are 0 / 1) so that any two values can be compared.            *)
(***************************************************************************)
MISSING_VALUE == [type |-> "MISSING", v |-> 0]
NULL_VALUE    == [type |-> "NULL", v |-> 0]
FALSE_VALUE   == [type |-> "BOOLEAN", v |-> 0]
TRUE_VALUE    == [type |-> "BOOLEAN", v |-> 1]
Number(n)     == [type |-> "NUMBER", v |-> n]

\* the nil Value (a nil interface), which is not a value.Value
NoValue == [type |-> "nil", v |-> 0]

\* a nil *value.Value, and "no call yet" for a recorded return value
Unset == [type |-> "unset", v |-> 0]

Values == {MISSING_VALUE, NULL_VALUE, FALSE_VALUE, TRUE_VALUE,
           Number(0), Number(1), Number(2)}

\* value.Value.Truth(): MISSING and NULL are not true; a boolean is its own
\* truth; a number is true unless it is zero
Truth(val) ==
    CASE val.type = "BOOLEAN" -> val.v = 1
      [] val.type = "NUMBER"  -> val.v # 0
      [] OTHER                -> FALSE

\* value.Value.Equals(other): a Value, not a bool. MISSING if either side is
\* MISSING, else NULL if either side is NULL, else the boolean of structural
\* equality
Equals(a, b) ==
    IF a.type = "MISSING" \/ b.type = "MISSING" THEN MISSING_VALUE
    ELSE IF a.type = "NULL" \/ b.type = "NULL" THEN NULL_VALUE
    ELSE IF a = b THEN TRUE_VALUE
    ELSE FALSE_VALUE

----
(***************************************************************************)
(* Or.Apply (expression/logic_or.go)                                       *)
(***************************************************************************)
MaxArgs == 3

\* The loop of Or.Apply from argument i on, with the flags collected so far.
\* A true argument returns TRUE_VALUE at once.
RECURSIVE OrApplyLoop(_, _, _, _)
OrApplyLoop(as, i, null, missing) ==
    IF i > Len(as) THEN
        IF null THEN NULL_VALUE
        ELSE IF missing THEN MISSING_VALUE
        ELSE FALSE_VALUE
    ELSE
        CASE as[i].type = "NULL"    -> OrApplyLoop(as, i + 1, TRUE, missing)
          [] as[i].type = "MISSING" -> OrApplyLoop(as, i + 1, null, TRUE)
          [] OTHER ->
                IF Truth(as[i]) THEN TRUE_VALUE
                ELSE OrApplyLoop(as, i + 1, null, missing)

\* a plausible slip: MISSING checked before NULL after the loop
RECURSIVE OrApplyLoopMissingFirst(_, _, _, _)
OrApplyLoopMissingFirst(as, i, null, missing) ==
    IF i > Len(as) THEN
        IF missing THEN MISSING_VALUE
        ELSE IF null THEN NULL_VALUE
        ELSE FALSE_VALUE
    ELSE
        CASE as[i].type = "NULL"    -> OrApplyLoopMissingFirst(as, i + 1, TRUE, missing)
          [] as[i].type = "MISSING" -> OrApplyLoopMissingFirst(as, i + 1, null, TRUE)
          [] OTHER ->
                IF Truth(as[i]) THEN TRUE_VALUE
                ELSE OrApplyLoopMissingFirst(as, i + 1, null, missing)

OrApplyMissingFirst(as) == OrApplyLoopMissingFirst(as, 1, FALSE, FALSE)

OrApply(as) == OrApplyLoop(as, 1, FALSE, FALSE)

----
(***************************************************************************)
(* Or.FilterCovers (expression/logic_or.go)                                *)
(*                                                                         *)
(* A cover map (map[string]value.Value) is a function from a set of        *)
(* expression texts to values.                                             *)
(***************************************************************************)
MaxOperands == 3

Texts == {"x", "y"}
CoverValues == {Number(1), Number(2), NULL_VALUE}
CoverMaps == UNION {[S -> CoverValues] : S \in SUBSET Texts}
EmptyCovers == [s \in {} |-> NoValue]

\* m with the entries of n set (covers[s] = v for each entry of n)
PutAll(m, n) ==
    [s \in DOMAIN m \cup DOMAIN n |-> IF s \in DOMAIN n THEN n[s] ELSE m[s]]

\* operand.FilterCovers(c): the operand adds its implicit covers to c
OperandFilterCovers(operand, c) == PutAll(c, operand)

\* a plausible slip: only the presence of the text is compared
IntersectCoversKeysOnly(c, ci) ==
    LET keep == {s \in DOMAIN c : s \in DOMAIN ci}
    IN  [s \in keep |-> c[s]]

\* lines 70-75: drop from c every entry that ci lacks or holds with a value
\* that is not Equals-true
IntersectCovers(c, ci) ==
    LET keep == {s \in DOMAIN c : s \in DOMAIN ci /\ Truth(Equals(c[s], ci[s]))}
    IN  [s \in keep |-> c[s]]

\* The loop of lines 61-76 from operand i on. The result is <<ok, c>>: ok is
\* FALSE when some operand had no covers (the early "return covers").
RECURSIVE OrCoversLoop(_, _, _)
OrCoversLoop(operands, i, c) ==
    IF i > Len(operands) THEN <<TRUE, c>>
    ELSE LET ci == OperandFilterCovers(operands[i], EmptyCovers)
         IN  IF DOMAIN ci = {} THEN <<FALSE, c>>
             ELSE OrCoversLoop(operands, i + 1, IntersectCovers(c, ci))

OrFilterCovers(operands, cov) ==
    LET c == OperandFilterCovers(operands[1], EmptyCovers)
    IN  IF DOMAIN c = {} THEN cov
        ELSE LET r == OrCoversLoop(operands, 2, c)
             IN  IF r[1] THEN PutAll(cov, r[2]) ELSE cov

----
(***************************************************************************)
(* ExpressionBase.Value (expression/base.go)                               *)
(*                                                                         *)
(* A node is [volatile, conditional, children, eval]. A child is summarised*)
(* by what its own Value(), PropagatesMissing() and PropagatesNull()       *)
(* return; eval is the outcome of expr.Evaluate(nil, nil): a value, "error"*)
(* or "panic".                                                             *)
(***************************************************************************)
MaxChildren == 2

ChildValues == {NoValue, MISSING_VALUE, NULL_VALUE, Number(1)}
Children == [value : ChildValues, propMissing : BOOLEAN, propNull : BOOLEAN]
EvalError == [type |-> "error", v |-> 0]
EvalPanic == [type |-> "panic", v |-> 0]
EvalOutcomes == {Number(1), MISSING_VALUE, EvalError, EvalPanic}

\* ExpressionBase.PropagatesMissing: false for a conditional node or when a
\* child's PropagatesMissing() is false
PropagatesMissing(n) ==
    /\ ~n.conditional
    /\ \A i \in 1..Len(n.children) : n.children[i].propMissing

\* ExpressionBase.PropagatesNull, likewise
PropagatesNull(n) ==
    /\ ~n.conditional
    /\ \A i \in 1..Len(n.children) : n.children[i].propNull

\* The loop over the children (lines 108-126) from child i on; val is
\* this.value. The result is <<returned, val>>: returned is TRUE when the
\* loop returned *this.value from inside (a constant MISSING child of a node
\* that propagates MISSING).
RECURSIVE ValueLoop(_, _, _)
ValueLoop(n, i, val) ==
    IF i > Len(n.children) THEN <<FALSE, val>>
    ELSE LET cv == n.children[i].value
         IN  IF cv = NoValue
             THEN ValueLoop(n, i + 1, IF val = Unset THEN NoValue ELSE val)
             ELSE IF PropagatesMissing(n) /\ cv.type = "MISSING"
             THEN <<TRUE, cv>>
             ELSE IF PropagatesNull(n) /\ cv.type = "NULL"
             THEN ValueLoop(n, i + 1, cv)
             ELSE ValueLoop(n, i + 1, val)

\* a plausible slip: the volatile test of lines 100-103 is left out
ExprValueNoVolatile(n, val) ==
    IF val # Unset THEN [value |-> val, ret |-> val, evals |-> 0]
    ELSE LET r == ValueLoop(n, 1, val)
         IN  IF r[1] \/ r[2] # Unset
             THEN [value |-> r[2], ret |-> r[2], evals |-> 0]
             ELSE IF n.eval \in {EvalError, EvalPanic}
             THEN [value |-> NoValue, ret |-> NoValue, evals |-> 1]
             ELSE [value |-> n.eval, ret |-> n.eval, evals |-> 1]

\* a plausible slip: a failed Evaluate is handed to the caller and not
\* remembered
ExprValueSurfaces(n, val) ==
    IF val # Unset THEN [value |-> val, ret |-> val, evals |-> 0]
    ELSE IF n.volatile THEN [value |-> NoValue, ret |-> NoValue, evals |-> 0]
    ELSE LET r == ValueLoop(n, 1, val)
         IN  IF r[1] \/ r[2] # Unset
             THEN [value |-> r[2], ret |-> r[2], evals |-> 0]
             ELSE IF n.eval \in {EvalError, EvalPanic}
             THEN [value |-> Unset, ret |-> n.eval, evals |-> 1]
             ELSE [value |-> n.eval, ret |-> n.eval, evals |-> 1]

\* ExpressionBase.Value() on node n whose this.value is val: the new
\* this.value, the value returned and the number of Evaluate calls made.
\* Returning *this.value when this.value is &_NIL_VALUE returns nil.
ExprValue(n, val) ==
    IF val # Unset THEN [value |-> val, ret |-> val, evals |-> 0]
    ELSE IF n.volatile THEN [value |-> NoValue, ret |-> NoValue, evals |-> 0]
    ELSE LET r == ValueLoop(n, 1, val)
         IN  IF r[1] \/ r[2] # Unset
             THEN [value |-> r[2], ret |-> r[2], evals |-> 0]
             ELSE IF n.eval \in {EvalError, EvalPanic}
             THEN [value |-> NoValue, ret |-> NoValue, evals |-> 1]
             ELSE [value |-> n.eval, ret |-> n.eval, evals |-> 1]

----
(***************************************************************************)
(* Expressions of the planner: [k, id, ops]. k is the node kind, id the    *)
(* atom number (or the truth of a constant), ops the operands.             *)
(***************************************************************************)
Atom(i)  == [k |-> "atom", id |-> i, ops |-> <<>>]
Const(b) == [k |-> "const", id |-> IF b THEN 1 ELSE 0, ops |-> <<>>]
And(ops) == [k |-> "and", id |-> 0, ops |-> ops]
Or(ops)  == [k |-> "or", id |-> 0, ops |-> ops]
Not(e)   == [k |-> "not", id |-> 0, ops |-> <<e>>]
NilExpr  == [k |-> "nil", id |-> 0, ops |-> <<>>]

TRUE_EXPR  == Const(TRUE)
FALSE_EXPR == Const(FALSE)

\* the base keyspaces of the query, and the keyspaces the atomic predicates
\* mention: A1 and A2 mention a, B1 mentions b, J is a join predicate on a
\* and b; no predicate mentions c
Keyspaces == {"a", "b", "c"}
A1 == Atom(1)
A2 == Atom(2)
B1 == Atom(3)
J  == Atom(4)
AtomKeyspaces(i) ==
    CASE i \in {1, 2} -> {"a"}
      [] i = 3        -> {"b"}
      [] OTHER        -> {"a", "b"}

\* expression.CountKeySpaces: the keyspaces among names that expr mentions
RECURSIVE CountKeySpaces(_, _)
CountKeySpaces(expr, names) ==
    IF expr.k = "atom" THEN AtomKeyspaces(expr.id) \cap names
    ELSE UNION {CountKeySpaces(expr.ops[i], names) : i \in 1..Len(expr.ops)}

\* whether expr has no atom below it, and then its boolean value
RECURSIVE IsStatic(_)
IsStatic(expr) ==
    /\ expr.k # "atom"
    /\ \A i \in 1..Len(expr.ops) : IsStatic(expr.ops[i])

RECURSIVE StaticTruth(_)
StaticTruth(expr) ==
    CASE expr.k = "const" -> expr.id = 1
      [] expr.k = "not"   -> ~StaticTruth(expr.ops[1])
      [] expr.k = "and"   -> \A i \in 1..Len(expr.ops) : StaticTruth(expr.ops[i])
      [] expr.k = "or"    -> \E i \in 1..Len(expr.ops) : StaticTruth(expr.ops[i])
      [] OTHER            -> FALSE

\* expr.Value() of a predicate: its constant value when all its leaves are
\* constants, nil when some child is not constant (ExpressionBase.Value on a
\* node that propagates neither MISSING nor NULL)
PredValue(expr) ==
    IF IsStatic(expr)
    THEN (IF StaticTruth(expr) THEN TRUE_VALUE ELSE FALSE_VALUE)
    ELSE NoValue

\* the operands of a list, with the operands of each nested node of kind k
\* in place of that node
RECURSIVE FlattenOps(_, _)
FlattenOps(k, ops) ==
    IF ops = <<>> THEN <<>>
    ELSE (IF Head(ops).k = k THEN FlattenOps(k, Head(ops).ops) ELSE <<Head(ops)>>)
         \o FlattenOps(k, Tail(ops))

NotTrueExpr(e) == e # TRUE_EXPR
NotFalseExpr(e) == e # FALSE_EXPR
Negated(ops) == [i \in 1..Len(ops) |-> Not(ops[i])]

\* DNF.Map with like = true, doDNF = false (planner/dnf.go): expression
\* transformation without the DNF expansion. Constants are folded, NOT is
\* pushed down by De Morgan and double negation, nested AND / OR are
\* flattened.
RECURSIVE DNFMap(_)
DNFMap(expr) ==
    CASE expr.k = "not" ->
            LET x == expr.ops[1]
            IN  CASE x.k = "const" -> Const(x.id = 0)
                  [] x.k = "not"   -> DNFMap(x.ops[1])
                  [] x.k = "and"   -> DNFMap(Or(Negated(x.ops)))
                  [] x.k = "or"    -> DNFMap(And(Negated(x.ops)))
                  [] OTHER         -> expr
      [] expr.k = "and" ->
            LET flat == FlattenOps("and", [i \in 1..Len(expr.ops) |-> DNFMap(expr.ops[i])])
                terms == SelectSeq(flat, NotTrueExpr)
            IN  IF \E i \in 1..Len(flat) : flat[i] = FALSE_EXPR THEN FALSE_EXPR
                ELSE IF terms = <<>> THEN TRUE_EXPR
                ELSE IF Len(terms) = 1 THEN terms[1]
                ELSE And(terms)
      [] expr.k = "or" ->
            LET flat == FlattenOps("or", [i \in 1..Len(expr.ops) |-> DNFMap(expr.ops[i])])
                terms == SelectSeq(flat, NotFalseExpr)
            IN  IF \E i \in 1..Len(flat) : flat[i] = TRUE_EXPR THEN TRUE_EXPR
                ELSE IF terms = <<>> THEN FALSE_EXPR
                ELSE IF Len(terms) = 1 THEN terms[1]
                ELSE Or(terms)
      [] OTHER -> expr

\* flattenOr: the OR with nested ORs flattened, and whether a disjunct is
\* the constant true
FlattenOr(or) ==
    LET terms == FlattenOps("or", or.ops)
    IN  [orTerms |-> Or(terms),
         truth |-> \E i \in 1..Len(terms) : PredValue(terms[i]) = TRUE_VALUE]

\* expression.NewAnd(first, second)
NewAnd(first, second) == And(<<first, second>>)

----
(***************************************************************************)
(* The classifier (planner: ClassifyExpr, exprClassifier)                  *)
(***************************************************************************)
\* newFilter(fltrExpr, origExpr, keyspaces, isOnclause, isJoin)
newFilter(fltrExpr, origExpr, keyspaces, onclause, isJoin) ==
    [fltrExpr |-> fltrExpr, origExpr |-> origExpr, keyspaces |-> keyspaces,
     isOnclause |-> onclause, isJoin |-> isJoin]

\* a base keyspace without filters
newBaseKeyspace(planDone) ==
    [filters |-> <<>>, joinfilters |-> <<>>, planDone |-> planDone]

\* copyBaseKeyspaces: the same keyspaces, each without filters
copyBaseKeyspaces(src) == [k \in DOMAIN src |-> newBaseKeyspace(src[k].planDone)]

\* newExprClassifier(baseKeyspaces, isOnclause); bk is the table the
\* classifier appends to
newExprClassifier(bk, onclause) ==
    [bk |-> bk, isOnclause |-> onclause,
     recursion |-> FALSE, recurseExpr |-> NilExpr,
     recursionJoin |-> FALSE, recurseJoinExpr |-> NilExpr]

\* a plausible slip: only the first filter of the keyspace is taken
CollectFiltersFirstOnly(filters, i, acc) ==
    IF i > Len(filters) THEN acc
    ELSE [newTerm |-> filters[i].fltrExpr,
          newOrigTerm |-> filters[i].origExpr,
          isJoin |-> acc.isJoin \/ filters[i].isJoin]

\* lines 420-436 of extractExpr: the AND of the filters of one keyspace,
\* from filter i on; acc is [newTerm, newOrigTerm, isJoin]
RECURSIVE CollectFilters(_, _, _)
CollectFilters(filters, i, acc) ==
    IF i > Len(filters) THEN acc
    ELSE LET fl == filters[i]
         IN  CollectFilters(filters, i + 1,
                [newTerm |-> IF acc.newTerm = NilExpr THEN fl.fltrExpr
                             ELSE NewAnd(acc.newTerm, fl.fltrExpr),
                 newOrigTerm |-> IF fl.origExpr = NilExpr THEN acc.newOrigTerm
                                 ELSE IF acc.newOrigTerm = NilExpr THEN fl.origExpr
                                 ELSE NewAnd(acc.newOrigTerm, fl.origExpr),
                 isJoin |-> acc.isJoin \/ fl.isJoin])

RECURSIVE visitDefault(_, _)
RECURSIVE VisitAnd(_, _)
RECURSIVE VisitAndFrom(_, _, _)
RECURSIVE ClassifyExprOn(_, _, _)
RECURSIVE extractExpr(_, _, _)
RECURSIVE extractExprFrom(_, _, _, _, _)
RECURSIVE extractExprFromSkip(_, _, _, _, _)

\* VisitAnd from operand i on: a nested AND is visited operand by operand,
\* any other operand goes to visitDefault
VisitAndFrom(this, ops, i) ==
    IF i > Len(ops) THEN this
    ELSE VisitAndFrom(IF ops[i].k = "and" THEN VisitAnd(this, ops[i])
                      ELSE visitDefault(this, ops[i]),
                      ops, i + 1)

VisitAnd(this, expr) == VisitAndFrom(this, expr.ops, 1)

\* ClassifyExpr(expr, baseKeyspaces, isOnclause): a new classifier visits
\* expr; the result is the table with the filters appended
ClassifyExprOn(expr, bk, onclause) ==
    LET visitor == newExprClassifier(bk, onclause)
    IN  IF expr.k = "and" THEN VisitAnd(visitor, expr)
        ELSE visitDefault(visitor, expr)

\* a plausible slip: a disjunct without a filter for the keyspace is skipped
\* instead of ending the extraction
extractExprFromSkip(this, terms, i, keyspaceName, acc) ==
    IF i > Len(terms)
    THEN [pred |-> IF acc.newTerms = <<>> THEN NilExpr ELSE Or(acc.newTerms),
          orig |-> Or(acc.newOrigTerms), isJoin |-> acc.isJoin]
    ELSE LET copies == copyBaseKeyspaces(this.bk)
             result == ClassifyExprOn(terms[i], copies, this.isOnclause).bk
             c == CollectFilters(result[keyspaceName].filters, 1,
                                 [newTerm |-> NilExpr, newOrigTerm |-> NilExpr,
                                  isJoin |-> acc.isJoin])
         IN  IF c.newTerm = NilExpr
             THEN extractExprFromSkip(this, terms, i + 1, keyspaceName, acc)
             ELSE extractExprFromSkip(this, terms, i + 1, keyspaceName,
                    [newTerms |-> Append(acc.newTerms, c.newTerm),
                     newOrigTerms |-> IF c.newOrigTerm = NilExpr THEN acc.newOrigTerms
                                      ELSE Append(acc.newOrigTerms, c.newOrigTerm),
                     isJoin |-> c.isJoin])

\* the loop of extractExpr (lines 411-447) from disjunct i on; acc is
\* [newTerms, newOrigTerms, isJoin]. NilExpr stands for the nil results.
extractExprFrom(this, terms, i, keyspaceName, acc) ==
    IF i > Len(terms)
    THEN [pred |-> Or(acc.newTerms), orig |-> Or(acc.newOrigTerms), isJoin |-> acc.isJoin]
    ELSE LET copies == copyBaseKeyspaces(this.bk)
             result == ClassifyExprOn(terms[i], copies, this.isOnclause).bk
             c == CollectFilters(result[keyspaceName].filters, 1,
                                 [newTerm |-> NilExpr, newOrigTerm |-> NilExpr,
                                  isJoin |-> acc.isJoin])
         IN  IF c.newTerm = NilExpr
             THEN [pred |-> NilExpr, orig |-> NilExpr, isJoin |-> FALSE]
             ELSE extractExprFrom(this, terms, i + 1, keyspaceName,
                    [newTerms |-> Append(acc.newTerms, c.newTerm),
                     newOrigTerms |-> IF c.newOrigTerm = NilExpr THEN acc.newOrigTerms
                                      ELSE Append(acc.newOrigTerms, c.newOrigTerm),
                     isJoin |-> c.isJoin])

extractExpr(this, or, keyspaceName) ==
    LET f == FlattenOr(or)
    IN  IF f.truth THEN [pred |-> NilExpr, orig |-> NilExpr, isJoin |-> FALSE]
        ELSE extractExprFrom(this, f.orTerms.ops, 1, keyspaceName,
                             [newTerms |-> <<>>, newOrigTerms |-> <<>>, isJoin |-> FALSE])

\* a plausible slip: the list is chosen on isJoin, which was computed before
\* the keyspaces already planned were removed
AppendFilterOnIsJoin(this, kspace, dnfExpr, origExpr, keyspaces, isJoin) ==
    LET baseKspace == this.bk[kspace]
        filter == newFilter(dnfExpr, origExpr, keyspaces, this.isOnclause, isJoin)
    IN  IF ~isJoin
        THEN [baseKspace EXCEPT !.filters = Append(@, filter)]
        ELSE [baseKspace EXCEPT !.joinfilters = Append(@, filter)]

\* a plausible slip: a join predicate is appended to filters as well
AppendFilterAlwaysFilters(this, kspace, dnfExpr, origExpr, keyspaces, isJoin) ==
    LET baseKspace == this.bk[kspace]
        filter == newFilter(dnfExpr, origExpr, keyspaces, this.isOnclause, isJoin)
    IN  [baseKspace EXCEPT !.filters = Append(@, filter)]

\* lines 369-395 for one keyspace of keyspaces: the base keyspace with the
\* filter appended (and, for an OR join predicate, the extracted filter)
AppendFilter(this, kspace, dnfExpr, origExpr, keyspaces, isJoin) ==
    LET baseKspace == this.bk[kspace]
        filter == newFilter(dnfExpr, origExpr, keyspaces, this.isOnclause, isJoin)
    IN  IF Cardinality(keyspaces) = 1
        THEN [baseKspace EXCEPT !.filters = Append(@, filter)]
        ELSE LET x == IF dnfExpr.k = "or" THEN extractExpr(this, dnfExpr, kspace)
                      ELSE [pred |-> NilExpr, orig |-> NilExpr, isJoin |-> FALSE]
             IN  [baseKspace EXCEPT
                    !.joinfilters = Append(@, filter),
                    !.filters = IF x.pred = NilExpr THEN @
                                ELSE Append(@, newFilter(x.pred, x.orig, {kspace},
                                                         this.isOnclause, x.isJoin))]

\* lines 330-351: the origExpr of the filter, and the classifier after a
\* pending recurseExpr / recurseJoinExpr has been used up
OrigExpr(this, expr, single) ==
    IF single
    THEN IF this.recursion
         THEN [origExpr |-> this.recurseExpr,
               this |-> [this EXCEPT !.recurseExpr = NilExpr]]
         ELSE [origExpr |-> expr, this |-> this]
    ELSE IF this.recursionJoin
         THEN [origExpr |-> this.recurseJoinExpr,
               this |-> [this EXCEPT !.recurseJoinExpr = NilExpr]]
         ELSE [origExpr |-> expr, this |-> this]

\* a plausible slip: on the ON-clause path the keyspaces already planned are
\* not removed
visitDefaultKeepsPlanDone(this, expr) ==
    IF PredValue(expr) # NoValue /\ Truth(PredValue(expr)) THEN this
    ELSE LET keyspaces == CountKeySpaces(expr, DOMAIN this.bk)
             dnfExpr == DNFMap(expr)
             single == Cardinality(keyspaces) = 1
         IN  IF keyspaces = {} THEN this
             ELSE IF dnfExpr.k = "and"
             THEN IF single
                  THEN LET r == VisitAnd([this EXCEPT
                                    !.recursion = TRUE,
                                    !.recurseExpr = IF @ = NilExpr THEN expr ELSE @],
                                 dnfExpr)
                       IN  [r EXCEPT !.recursion = this.recursion]
                  ELSE LET r == VisitAnd([this EXCEPT
                                    !.recursionJoin = TRUE,
                                    !.recurseJoinExpr = IF @ = NilExpr THEN expr ELSE @],
                                 dnfExpr)
                       IN  [r EXCEPT !.recursionJoin = this.recursionJoin]
             ELSE LET o == OrigExpr(this, expr, single)
                      isJoin == Cardinality(keyspaces) > 1
                  IN  [o.this EXCEPT !.bk =
                         [k \in DOMAIN this.bk |->
                            IF k \in keyspaces
                            THEN AppendFilter(this, k, dnfExpr, o.origExpr, keyspaces, isJoin)
                            ELSE this.bk[k]]]

visitDefault(this, expr) ==
    IF PredValue(expr) # NoValue /\ Truth(PredValue(expr)) THEN this
    ELSE LET keyspaces == CountKeySpaces(expr, DOMAIN this.bk)
             dnfExpr == DNFMap(expr)
             single == Cardinality(keyspaces) = 1
         IN  IF keyspaces = {} THEN this
             ELSE IF dnfExpr.k = "and"
             THEN \* the transformation generated new AND terms: recurse; the
                  \* deferred function restores the recursion flag
                  IF single
                  THEN LET r == VisitAnd([this EXCEPT
                                    !.recursion = TRUE,
                                    !.recurseExpr = IF @ = NilExpr THEN expr ELSE @],
                                 dnfExpr)
                       IN  [r EXCEPT !.recursion = this.recursion]
                  ELSE LET r == VisitAnd([this EXCEPT
                                    !.recursionJoin = TRUE,
                                    !.recurseJoinExpr = IF @ = NilExpr THEN expr ELSE @],
                                 dnfExpr)
                       IN  [r EXCEPT !.recursionJoin = this.recursionJoin]
             ELSE LET o == OrigExpr(this, expr, single)
                      isJoin == Cardinality(keyspaces) > 1
                      \* remove references to keyspaces already processed
                      remaining == IF this.isOnclause
                                   THEN {k \in keyspaces : ~this.bk[k].planDone}
                                   ELSE keyspaces
                  IN  [o.this EXCEPT !.bk =
                         [k \in DOMAIN this.bk |->
                            IF k \in remaining
                            THEN AppendFilter(this, k, dnfExpr, o.origExpr, remaining, isJoin)
                            ELSE this.bk[k]]]

----
(***************************************************************************)
(* The plan builder (plan/builder.go)                                      *)
(*                                                                         *)
(* An operator is [op, from, children]: its kind, the id of the algebra    *)
(* node it was created for, and its child operators. A slice of operators  *)
(* is a sequence: NewSequence(this.children...) keeps the slice as it is   *)
(* at the call, later appends to the builder's slice do not reach it.      *)
(***************************************************************************)
Op(name, id, children) == [op |-> name, from |-> id, children |-> children]
NilOp == [op |-> "nil", from |-> 0, children |-> <<>>]

NewSequence(id, children) == Op("Sequence", id, children)
NewParallel(id, child)    == Op("Parallel", id, <<child>>)
NewUnionAll(id, first, second) == Op("UnionAll", id, <<first, second>>)

\* newBuilder(site)
newBuilder == [projectInitial |-> FALSE, children |-> <<>>, subChildren |-> <<>>]

Result(b, op) == [b |-> b, op |-> op, err |-> FALSE]
Failure(b)    == [b |-> b, op |-> NilOp, err |-> TRUE]

\* the namespace and keyspace lookups of a keyspace term (lines 208-216)
LookupFails(term) == term.lookup \in {"noNamespace", "noKeyspace"}

\* VisitKeyspaceTerm (lines 207-234)
VisitKeyspaceTerm(b, term) ==
    IF LookupFails(term) THEN Failure(b)
    ELSE IF ~term.keys /\ term.lookup = "noIndex" THEN Failure(b)
    ELSE LET scan == IF term.keys THEN Op("KeyScan", term.id, <<>>)
                     ELSE Op("PrimaryScan", term.id, <<>>)
             fetch == Op("Fetch", term.id, <<>>)
         IN  Result([b EXCEPT !.children = Append(@, scan),
                              !.subChildren = Append(@, fetch)], fetch)

\* VisitJoin, VisitNest (lines 240-282): the left term, then the lookup of
\* the right keyspace, then the Join / Nest operator
VisitJoinNest(b, fromNode, name) ==
    LET left == VisitKeyspaceTerm(b, fromNode.left)
    IN  IF left.err THEN Failure(left.b)
        ELSE IF fromNode.rightLookup # "ok" THEN Failure(left.b)
        ELSE LET join == Op(name, fromNode.id, <<>>)
             IN  Result([left.b EXCEPT !.subChildren = Append(@, join)], join)

\* VisitUnnest (lines 284-294)
VisitUnnest(b, fromNode) ==
    LET left == VisitKeyspaceTerm(b, fromNode.left)
    IN  IF left.err THEN Failure(left.b)
        ELSE LET unnest == Op("Unnest", fromNode.id, <<>>)
             IN  Result([left.b EXCEPT !.subChildren = Append(@, unnest)], unnest)

\* node.From().Accept(this)
VisitFrom(b, fromNode) ==
    CASE fromNode.kind = "keyspace" -> VisitKeyspaceTerm(b, fromNode)
      [] fromNode.kind = "join"     -> VisitJoinNest(b, fromNode, "Join")
      [] fromNode.kind = "nest"     -> VisitJoinNest(b, fromNode, "Nest")
      [] fromNode.kind = "unnest"   -> VisitUnnest(b, fromNode)
      [] OTHER                      -> Result(b, NilOp)   \* VisitParentTerm

\* visitGroup (lines 146-171)
visitGroup(b, id, group) ==
    LET sub1 == b.subChildren \o <<Op("InitialGroup", id, <<>>),
                                   Op("IntermediateGroup", id, <<>>)>>
        children == b.children \o <<NewParallel(id, NewSequence(id, sub1)),
                                    Op("IntermediateGroup", id, <<>>),
                                    Op("FinalGroup", id, <<>>)>>
        sub2 == (IF group.letting THEN <<Op("Let", id, <<>>)>> ELSE <<>>)
                \o (IF group.having THEN <<Op("Filter", id, <<>>)>> ELSE <<>>)
    IN  [b EXCEPT !.children = children, !.subChildren = sub2]

NoGroup == [present |-> FALSE, letting |-> FALSE, having |-> FALSE]

\* lines 95-144 of VisitSubselect, after node.From() was visited
SubselectAfterFrom(b0, sel) ==
    LET id == sel.id
        b1 == IF sel.from.kind = "none"
              THEN [b0 EXCEPT !.children = Append(@, Op("DummyScan", id, <<>>))]
              ELSE b0
        b2 == IF sel.let THEN [b1 EXCEPT !.subChildren = Append(@, Op("Let", id, <<>>))]
              ELSE b1
        b3 == IF sel.where THEN [b2 EXCEPT !.subChildren = Append(@, Op("Filter", id, <<>>))]
              ELSE b2
        \* aggregates without GROUP BY synthesize an empty group
        group == IF ~sel.group.present /\ sel.aggs
                 THEN [present |-> TRUE, letting |-> FALSE, having |-> FALSE]
                 ELSE sel.group
        b4 == IF group.present THEN visitGroup(b3, id, group) ELSE b3
        b5 == [b4 EXCEPT !.subChildren = Append(@, Op("InitialProject", id, <<>>))]
        b6 == IF sel.distinct
              THEN [b5 EXCEPT !.subChildren = Append(@, Op("FinalProject", id, <<>>))]
              ELSE b5
        b7 == [b6 EXCEPT !.children =
                   Append(@, NewParallel(id, NewSequence(id, b6.subChildren)))]
        \* lines 139-141: the Distinct goes to subChildren, after the Sequence
        \* over subChildren has been built
        b8 == IF sel.distinct
              THEN [b7 EXCEPT !.subChildren = Append(@, Op("Distinct", id, <<>>))]
              ELSE b7
    IN  Result(b8, NewSequence(id, b8.children))

\* a plausible slip: the builder's slices are not renewed at the start of
\* VisitSubselect
VisitSubselectKeepSlices(b, sel) ==
    LET from == IF sel.from.kind = "none" THEN Result(b, NilOp)
                ELSE VisitFrom(b, sel.from)
    IN  IF from.err THEN Failure(from.b)
        ELSE SubselectAfterFrom(from.b, sel)

\* VisitSubselect (lines 91-144)
VisitSubselect(b, sel) ==
    LET fresh == [b EXCEPT !.children = <<>>, !.subChildren = <<>>]
        from == IF sel.from.kind = "none" THEN Result(fresh, NilOp)
                ELSE VisitFrom(fresh, sel.from)
    IN  IF from.err THEN Failure(from.b)
        ELSE SubselectAfterFrom(from.b, sel)

RECURSIVE Visit(_, _)

\* a plausible slip: projectInitial is left as the SELECT set it
VisitUnionKeepsProjectInitial(b, n) ==
    LET first == Visit(b, n.first)
    IN  IF first.err THEN Failure(first.b)
        ELSE LET second == Visit(first.b, n.second)
             IN  IF second.err THEN Failure(second.b)
                 ELSE Result(second.b,
                        NewSequence(n.id, <<NewUnionAll(n.id, first.op, second.op),
                                            Op("Distinct", n.id, <<>>)>>))

\* VisitUnion (lines 173-189)
VisitUnion(b, n) ==
    LET b0 == [b EXCEPT !.projectInitial = FALSE]
        first == Visit(b0, n.first)
    IN  IF first.err THEN Failure(first.b)
        ELSE LET second == Visit(first.b, n.second)
             IN  IF second.err THEN Failure(second.b)
                 ELSE Result(second.b,
                        NewSequence(n.id, <<NewUnionAll(n.id, first.op, second.op),
                                            Op("Distinct", n.id, <<>>)>>))

\* VisitUnionAll (lines 191-205)
VisitUnionAll(b, n) ==
    LET b0 == [b EXCEPT !.projectInitial = FALSE]
        first == Visit(b0, n.first)
    IN  IF first.err THEN Failure(first.b)
        ELSE LET second == Visit(first.b, n.second)
             IN  IF second.err THEN Failure(second.b)
                 ELSE Result(second.b, NewUnionAll(n.id, first.op, second.op))

\* a plausible slip: the FinalProject is appended whether or not there is an
\* ORDER BY
VisitSelectAlwaysFinal(b, n) ==
    LET b0 == IF n.order THEN [b EXCEPT !.projectInitial = TRUE] ELSE b
        sub == Visit(b0, n.subresult)
    IN  IF sub.err THEN Failure(sub.b)
        ELSE Result(sub.b, NewSequence(n.id,
                <<sub.op>>
                \o (IF n.order THEN <<Op("Order", n.id, <<>>)>> ELSE <<>>)
                \o (IF n.offset THEN <<Op("Offset", n.id, <<>>)>> ELSE <<>>)
                \o (IF n.limit THEN <<Op("Limit", n.id, <<>>)>> ELSE <<>>)
                \o <<NewParallel(n.id, Op("FinalProject", n.id, <<>>))>>))

\* VisitSelect (lines 51-89)
VisitSelect(b, n) ==
    LET b0 == IF n.order THEN [b EXCEPT !.projectInitial = TRUE] ELSE b
        sub == Visit(b0, n.subresult)
    IN  IF sub.err THEN Failure(sub.b)
        ELSE IF ~n.order /\ ~n.offset /\ ~n.limit THEN Result(sub.b, sub.op)
        ELSE Result(sub.b, NewSequence(n.id,
                <<sub.op>>
                \o (IF n.order THEN <<Op("Order", n.id, <<>>)>> ELSE <<>>)
                \o (IF n.offset THEN <<Op("Offset", n.id, <<>>)>> ELSE <<>>)
                \o (IF n.limit THEN <<Op("Limit", n.id, <<>>)>> ELSE <<>>)
                \o (IF sub.b.projectInitial
                    THEN <<NewParallel(n.id, Op("FinalProject", n.id, <<>>))>>
                    ELSE <<>>)))

\* DML (lines 298-316): each visitor returns nil, nil
VisitInsert(b, n) == Result(b, NilOp)
VisitUpsert(b, n) == Result(b, NilOp)
VisitDelete(b, n) == Result(b, NilOp)
VisitUpdate(b, n) == Result(b, NilOp)
VisitMerge(b, n)  == Result(b, NilOp)

\* DDL (lines 320-330)
VisitCreateIndex(b, n) == Result(b, Op("CreateIndex", n.id, <<>>))
VisitDropIndex(b, n)   == Result(b, Op("DropIndex", n.id, <<>>))
VisitAlterIndex(b, n)  == Result(b, Op("AlterIndex", n.id, <<>>))

\* what a visit leaves when it panicked
PanicOp == [op |-> "panic", from |-> 0, children |-> <<>>]

\* VisitExplain (lines 334-341): the type assertion op.(Operator) panics on
\* the nil of a DML statement
VisitExplain(b, n) ==
    LET r == Visit(b, n.statement)
    IN  IF r.err THEN Failure(r.b)
        ELSE IF r.op = NilOp THEN Result(r.b, PanicOp)
        ELSE Result(r.b, Op("Explain", n.id, <<r.op>>))

\* node.Accept(builder)
Visit(b, n) ==
    CASE n.kind = "select"      -> VisitSelect(b, n)
      [] n.kind = "subselect"   -> VisitSubselect(b, n)
      [] n.kind = "union"       -> VisitUnion(b, n)
      [] n.kind = "unionAll"    -> VisitUnionAll(b, n)
      [] n.kind = "insert"      -> VisitInsert(b, n)
      [] n.kind = "upsert"      -> VisitUpsert(b, n)
      [] n.kind = "delete"      -> VisitDelete(b, n)
      [] n.kind = "update"      -> VisitUpdate(b, n)
      [] n.kind = "merge"       -> VisitMerge(b, n)
      [] n.kind = "createIndex" -> VisitCreateIndex(b, n)
      [] n.kind = "dropIndex"   -> VisitDropIndex(b, n)
      [] n.kind = "alterIndex"  -> VisitAlterIndex(b, n)
      [] n.kind = "explain"     -> VisitExplain(b, n)

\* Build (lines 20-34): "error" when the visit failed, "ok" when it returned
\* an operator, "panic" when it returned anything else or panicked
BuildOf(n) ==
    LET r == Visit(newBuilder, n)
    IN  [builder |-> r.b,
         plan |-> IF r.err \/ r.op = PanicOp THEN NilOp ELSE r.op,
         built |-> IF r.err THEN "error"
                   ELSE IF r.op \in {NilOp, PanicOp} THEN "panic"
                   ELSE "ok"]

----
(***************************************************************************)
(* IndexScan2 (execution/scan_index2.go)                                   *)
(*                                                                         *)
(* An index entry is [PrimaryKey]; an annotated value is [id, covers]: the *)
(* id of its meta attachment and the values of its cover map in the order  *)
(* of plan.Covers(). The scan is either not covering or covers the primary *)
(* key only (Covers() = <<meta().id>>, no entry keys, no projection).      *)
(* A channel is the sequence of what it holds.                             *)
(***************************************************************************)
PrimaryKeys == {"k1", "k2"}
EntryCap == 1                 \* capacity of conn.EntryChannel()
PHASE_UPDATE_COUNT == 2       \* _PHASE_UPDATE_COUNT

IndexEntry(key) == [PrimaryKey |-> key]
NoEntry == [PrimaryKey |-> "nil"]
NoItem == [id |-> "nil", covers |-> <<>>]

\* a plausible slip: the cover of the primary key is used as meta.id
NewAnnotatedItemFromCover(entry, covering) ==
    [id |-> IF covering THEN entry.PrimaryKey ELSE "nil",
     covers |-> IF covering THEN <<entry.PrimaryKey>> ELSE <<>>]

\* lines 87-125: the annotated value made of an entry
NewAnnotatedItem(entry, covering) ==
    [id |-> entry.PrimaryKey,
     covers |-> IF covering THEN <<entry.PrimaryKey>> ELSE <<>>]

\* base.getItemEntry: a stop wins; else an entry if the channel holds one;
\* else (nil, true) if the channel is closed; else it blocks
GetItemEntryEnabled(stopChannel, c) ==
    stopChannel \/ c.entries # <<>> \/ c.closed
getItemEntry(stopChannel, c) ==
    IF stopChannel THEN [entry |-> NoEntry, cont |-> FALSE, rest |-> c.entries]
    ELSE IF c.entries # <<>>
    THEN [entry |-> Head(c.entries), cont |-> TRUE, rest |-> Tail(c.entries)]
    ELSE [entry |-> NoEntry, cont |-> TRUE, rest |-> c.entries]

\* a plausible slip: sendItem does not look at the stop channel
sendItemAlways(stopChannel, output, item) ==
    [ok |-> TRUE, output |-> Append(output, item)]

\* base.sendItem: false if the operator was told to stop, else the item goes
\* to the output
sendItem(stopChannel, output, item) ==
    IF stopChannel THEN [ok |-> FALSE, output |-> output]
    ELSE [ok |-> TRUE, output |-> Append(output, item)]

\* the deferred calls of RunOnce in the order they run (lines 53-74, last
\* deferred first)
ScanDefersCloseFirst ==
    <<"countDocs", "close", "notifyConn", "notify", "switchPhase", "Recover">>
ScanDefers ==
    <<"countDocs", "notifyConn", "notify", "switchPhase", "close", "Recover">>

NewIndexConnection == [entries |-> <<>>, closed |-> FALSE, stopped |-> FALSE]
NewProducer == [pc |-> "idle", rest |-> <<>>, scan2 |-> FALSE, errors |-> <<>>]
\* NewIndexScan2 (lines 28-37)
NewIndexScan2 ==
    [pc |-> "created", av |-> NoItem, docs |-> 0, phaseCount |-> 0,
     defers |-> <<>>, stopChannel |-> FALSE, output |-> <<>>,
     closed |-> FALSE, notified |-> FALSE]

----
(***************************************************************************)
(* DistinctScan (execution/scan_index2.go)                                 *)
(*                                                                         *)
(* An item of the inner scan is [id, covers]; the id "bad" stands for an   *)
(* item whose meta attachment or primary key is missing or not a string.   *)
(* limit is what getLimit returns: NoLimit when the plan has no limit.     *)
(***************************************************************************)
NoLimit == -1
ItemCap == 1                  \* capacity of the inner scan's item channel

Item(id) == [id |-> id, covers |-> <<>>]

\* a plausible slip: the key of an item sent is not remembered
processKeyNoRecord(keys, stopChannel, output, item, limit) ==
    IF item.id = "bad"
    THEN [ok |-> FALSE, keys |-> keys, output |-> output,
          error |-> "InvalidValue"]
    ELSE IF item.id \in keys
    THEN [ok |-> TRUE, keys |-> keys, output |-> output, error |-> "none"]
    ELSE IF limit > 0 /\ Cardinality(keys) >= limit
    THEN [ok |-> FALSE, keys |-> keys, output |-> output, error |-> "none"]
    ELSE LET sent == sendItem(stopChannel, output, item)
         IN  [ok |-> sent.ok, keys |-> keys,
              output |-> sent.output, error |-> "none"]

\* DistinctScan.processKey (lines 560-590)
processKey(keys, stopChannel, output, item, limit) ==
    IF item.id = "bad"
    THEN [ok |-> FALSE, keys |-> keys, output |-> output,
          error |-> "InvalidValue"]
    ELSE IF item.id \in keys
    THEN [ok |-> TRUE, keys |-> keys, output |-> output, error |-> "none"]
    ELSE IF limit > 0 /\ Cardinality(keys) >= limit
    THEN [ok |-> FALSE, keys |-> keys, output |-> output, error |-> "none"]
    ELSE LET sent == sendItem(stopChannel, output, item)
         IN  [ok |-> sent.ok, keys |-> keys \cup {item.id},
              output |-> sent.output, error |-> "none"]

\* the deferred calls of DistinctScan.RunOnce in the order they run (lines
\* 504-514, last deferred first)
DistinctDefers == <<"poolPut", "notify", "close", "switchPhase", "Recover">>

\* the inner scan before it runs
NewInner ==
    [pc |-> "created", rest |-> <<>>, stopChannel |-> FALSE,
     items |-> <<>>, closed |-> FALSE, notified |-> FALSE]

\* NewDistinctScan (lines 478-488)
NewDistinctScan ==
    [pc |-> "created", item |-> NoItem, n |-> 0, keys |-> {},
     inDocs |-> 0, defers |-> <<>>, stopChannel |-> FALSE,
     childChannel |-> FALSE, output |-> <<>>, outputAtStop |-> 0,
     closed |-> FALSE, notified |-> FALSE, errors |-> <<>>]

----
(***************************************************************************)
(* NLNest (execution/scan_index2.go)                                       *)
(*                                                                         *)
(* An inner item is [val, on]: the value of its field alias ("none" when   *)
(* it has no such field) and what the ON clause gives on it merged with    *)
(* the outer item ("true", "false", "error"). An item sent by the nest is  *)
(* [id, set, array]: the outer item, whether the field alias was set, and  *)
(* the array set there.                                                    *)
(***************************************************************************)
ANSI_ONCLAUSE_TRUE  == "ANSI_ONCLAUSE_TRUE"
ANSI_ONCLAUSE_FALSE == "ANSI_ONCLAUSE_FALSE"
ANSI_REOPEN_CHILD   == "ANSI_REOPEN_CHILD"

RightItem(val, on) == [val |-> val, on |-> on]
OuterItem(id) == [id |-> id, set |-> FALSE, array |-> <<>>]
NoOuterItem == OuterItem("nil")

\* joined.SetField(alias, vals)
SetAlias(item, vals) == [item EXCEPT !.set = TRUE, !.array = vals]

\* processAnsiExec: whether the inner item matches, and whether to go on
processAnsiExec(right_item, ansiFlags) ==
    IF ANSI_ONCLAUSE_TRUE \in ansiFlags THEN [match |-> TRUE, ok |-> TRUE]
    ELSE IF ANSI_ONCLAUSE_FALSE \in ansiFlags THEN [match |-> FALSE, ok |-> TRUE]
    ELSE IF right_item.on = "error" THEN [match |-> FALSE, ok |-> FALSE]
    ELSE [match |-> right_item.on = "true", ok |-> TRUE]

RECURSIVE AliasValues(_)
\* lines 399-410: the values at alias of the inner items, <<"none">> when one
\* of them has no such field
AliasValues(right_items) ==
    IF right_items = <<>> THEN <<>>
    ELSE IF Head(right_items).val = "none" THEN <<"none">>
    ELSE LET rest == AliasValues(Tail(right_items))
         IN  IF rest = <<"none">> THEN rest ELSE <<Head(right_items).val>> \o rest

\* a plausible slip: only the first matched inner item is nested
processAnsiNestFirstOnly(item, right_items, outer) ==
    IF right_items = <<>>
    THEN IF outer THEN [joined |-> SetAlias(item, <<>>), ok |-> TRUE]
         ELSE [joined |-> NoOuterItem, ok |-> TRUE]
    ELSE IF AliasValues(right_items) = <<"none">>
    THEN [joined |-> NoOuterItem, ok |-> FALSE]
    ELSE [joined |-> SetAlias(item, <<Head(right_items).val>>), ok |-> TRUE]

\* processAnsiNest (lines 385-415)
processAnsiNest(item, right_items, outer) ==
    IF right_items = <<>>
    THEN IF outer THEN [joined |-> SetAlias(item, <<>>), ok |-> TRUE]
         ELSE [joined |-> NoOuterItem, ok |-> TRUE]
    ELSE IF AliasValues(right_items) = <<"none">>
    THEN [joined |-> NoOuterItem, ok |-> FALSE]
    ELSE [joined |-> SetAlias(item, AliasValues(right_items)), ok |-> TRUE]

\* the child as made, and as left by reopen
NewChild ==
    [pc |-> "created", rest |-> <<>>, stopChannel |-> FALSE, items |-> <<>>,
     closed |-> FALSE, notified |-> FALSE, stops |-> 0, reopens |-> 0,
     runs |-> 0]

\* NewNLNest (lines 266-277)
NewNLNest ==
    [pc |-> "created", ansiFlags |-> {}, input |-> <<>>, item |-> NoOuterItem,
     stream |-> <<>>, right_items |-> <<>>, ok |-> TRUE, stopped |-> FALSE,
     n |-> 0, stopChannel |-> FALSE, childChannel |-> FALSE,
     output |-> <<>>, closed |-> FALSE, errors |-> 0, reopened |-> FALSE]

----
(***************************************************************************)
(* Stream (execution: Stream.processItem, Stream.afterItems)               *)
(*                                                                         *)
(* The request sink is the sequence of the calls made on the context:      *)
(* Result(item) and CloseResults().                                        *)
(***************************************************************************)
ResultCall(item) == [call |-> "Result", id |-> item.id]
CloseResultsCall == [call |-> "CloseResults", id |-> "nil"]

\* a plausible slip: processItem returns true whatever Result returned
streamProcessItemGoOn(sink, outDocs, item, accepted) ==
    [ok |-> TRUE,
     sink |-> Append(sink, ResultCall(item)),
     outDocs |-> IF accepted THEN outDocs + 1 ELSE outDocs]

\* Stream.processItem (lines 50-58); accepted is what context.Result returns
streamProcessItem(sink, outDocs, item, accepted) ==
    [ok |-> accepted,
     sink |-> Append(sink, ResultCall(item)),
     outDocs |-> IF accepted THEN outDocs + 1 ELSE outDocs]

\* Stream.afterItems (lines 60-62)
streamAfterItems(sink) == Append(sink, CloseResultsCall)

\* NewStream (lines 24-32)
NewStream ==
    [pc |-> "created", input |-> <<>>, item |-> NoItem, received |-> <<>>,
     sink |-> <<>>, outDocs |-> 0, stopChannel |-> FALSE, closed |-> FALSE]

----
(***************************************************************************)
(* ExpressionBase.CoveredBy (expression/base.go)                           *)
(*                                                                         *)
(* A node is [equivalent, children]: equivalent says whether EquivalentTo  *)
(* holds for one of exprs. A child is summarised by what its own CoveredBy *)
(* returns, once for options.skip unset and once for options.skip set.     *)
(***************************************************************************)
CoveredFalse == 0
CoveredContinue == 1
CoveredSkip == 2
CoveredEquiv == 3
CoveredTrue == 4
Covered == {CoveredFalse, CoveredContinue, CoveredSkip, CoveredEquiv, CoveredTrue}

coveredOptions(isSingle, skip, trickleEquiv) ==
    [isSingle |-> isSingle, skip |-> skip, trickleEquiv |-> trickleEquiv]

\* child.CoveredBy(keyspace, exprs, options)
ChildCoveredBy(c, options) == IF options.skip THEN c.afterSkip ELSE c.plain

RECURSIVE CoveredLoopStopsAtEquiv(_, _, _, _)
\* a plausible slip: a child that is CoveredEquiv ends the loop
CoveredLoopStopsAtEquiv(children, i, options, rv) ==
    IF i > Len(children) THEN [ret |-> rv, calls |-> <<>>]
    ELSE LET c == ChildCoveredBy(children[i], options)
         IN  IF c = CoveredFalse THEN [ret |-> CoveredFalse, calls |-> <<c>>]
             ELSE IF c = CoveredEquiv
             THEN [ret |-> IF options.trickleEquiv THEN CoveredEquiv ELSE rv,
                   calls |-> <<c>>]
             ELSE LET r == CoveredLoopStopsAtEquiv(children, i + 1,
                              [options EXCEPT !.skip = @ \/ c = CoveredSkip], rv)
                  IN  [ret |-> r.ret, calls |-> <<c>> \o r.calls]

RECURSIVE CoveredLoop(_, _, _, _)
\* the loop over the children (lines 285-304) from child i on: the value
\* returned and the returns of the children called
CoveredLoop(children, i, options, rv) ==
    IF i > Len(children) THEN [ret |-> rv, calls |-> <<>>]
    ELSE LET c == ChildCoveredBy(children[i], options)
         IN  IF c = CoveredFalse THEN [ret |-> CoveredFalse, calls |-> <<c>>]
             ELSE LET r == CoveredLoop(children, i + 1,
                              [options EXCEPT
                                 !.skip = @ \/ c \in {CoveredSkip, CoveredEquiv}],
                              IF c = CoveredEquiv /\ options.trickleEquiv
                              THEN CoveredEquiv ELSE rv)
                  IN  [ret |-> r.ret, calls |-> <<c>> \o r.calls]

\* ExpressionBase.CoveredBy(keyspace, exprs, options) on node n
ExprCoveredBy(n, options) ==
    IF n.equivalent THEN [ret |-> CoveredTrue, calls |-> <<>>]
    ELSE CoveredLoop(n.children, 1,
                     [options EXCEPT !.isSingle = Len(n.children) = 1],
                     CoveredTrue)

----
(***************************************************************************)
(* Audit (audit.Submit, as exercised by audit/audit_test.go)               *)
(*                                                                         *)
(* A string is the sequence of its parts, ":" being a part of its own: the *)
(* user "external:james" is <<"external", ":", "james">>.                  *)
(***************************************************************************)
Str(part) == <<part>>
EmptyStr == <<>>

RECURSIVE IndexOf(_, _, _)
\* the index of the first part equal to sep from i on, 0 if there is none
IndexOf(str, sep, i) ==
    IF i > Len(str) THEN 0
    ELSE IF str[i] = sep THEN i
    ELSE IndexOf(str, sep, i + 1)

UserInfo(name, domain) == [Name |-> name, Domain |-> domain]
RealUserId(source, username) == [Source |-> source, Username |-> username]

\* a plausible slip: every user is taken as a local one
userInfoOfLocalOnly(user) == UserInfo(user, Str("local"))

\* the user named by an entry of EventUsers: "domain:name" is split at the
\* first ":", a bare name is local
userInfoOf(user) ==
    LET at == IndexOf(user, ":", 1)
    IN  IF at = 0 THEN UserInfo(user, Str("local"))
        ELSE UserInfo(SubSeq(user, at + 1, Len(user)), SubSeq(user, 1, at - 1))

\* the event id of an event type (TestEventIdGeneration)
eventIdOf(eventType) ==
    CASE eventType = "SELECT" -> 28672
      [] eventType = "INSERT" -> 28676
      [] eventType = "UPDATE" -> 28679
      [] eventType = "DELETE" -> 28678
      [] OTHER -> 28687

auditQueueEntry(eventId, user) ==
    [eventId |-> eventId, RealUserid |-> user]

RECURSIVE auditableUsers(_, _)
\* the users of the event that are not whitelisted, in the order of EventUsers
auditableUsers(users, info) ==
    IF users = <<>> THEN <<>>
    ELSE LET u == userInfoOf(Head(users))
             rest == auditableUsers(Tail(users), info)
         IN  IF u \in info.UserWhitelisted THEN rest
             ELSE <<RealUserId(u.Domain, u.Name)>> \o rest

\* the entries Submit hands to the auditor for an event
buildAuditEntries(event, info) ==
    LET eventId == eventIdOf(event.eventType)
    IN  IF ~info.AuditEnabled \/ eventId \in info.EventDisabled THEN <<>>
        ELSE IF event.eventUsers = <<>>
        THEN <<auditQueueEntry(eventId, RealUserId(EmptyStr, EmptyStr))>>
        ELSE LET users == auditableUsers(event.eventUsers, info)
             IN  [i \in 1..Len(users) |-> auditQueueEntry(eventId, users[i])]

----
(***************************************************************************)
(* Idle values of each subsystem's variables                               *)
(***************************************************************************)
IdleOr == args = <<>> /\ orResult = NoValue
IdleCovers ==
    /\ operandCovers = <<>>
    /\ covers = EmptyCovers
    /\ coversIn = EmptyCovers
    /\ coversDone = FALSE

IdleNode == [volatile |-> FALSE, conditional |-> FALSE, children |-> <<>>,
             eval |-> EvalError]
IdleValue ==
    /\ node = IdleNode
    /\ value = Unset
    /\ valueRet = Unset
    /\ evaluations = 0

NoClassifier == [recursion |-> FALSE, recurseExpr |-> NilExpr,
                 recursionJoin |-> FALSE, recurseJoinExpr |-> NilExpr]
IdleClassify ==
    /\ pred = NilExpr
    /\ isOnclause = FALSE
    /\ baseKeyspaces = [k \in Keyspaces |-> newBaseKeyspace(FALSE)]
    /\ classifier = NoClassifier
    /\ classified = FALSE

NoStmt == [kind |-> "none", id |-> 0]
IdleBuild ==
    /\ stmt = NoStmt
    /\ builder = newBuilder
    /\ plan = NilOp
    /\ built = "no"

NoScanPlan == [entries |-> <<>>, spans |-> "ok", covering |-> FALSE]
IdleScan ==
    /\ scanPlan = NoScanPlan
    /\ conn = NewIndexConnection
    /\ producer = NewProducer
    /\ indexScan = NewIndexScan2

varsScan == <<scanPlan, conn, producer, indexScan>>

NoDistinctPlan == [items |-> <<>>, limit |-> NoLimit]
IdleDistinct ==
    /\ distinctPlan = NoDistinctPlan
    /\ inner = NewInner
    /\ distinctScan = NewDistinctScan

varsDistinct == <<distinctPlan, inner, distinctScan>>

NoNestPlan == [outer |-> FALSE, onclause |-> "none", items |-> <<>>]
IdleNest ==
    /\ nestPlan = NoNestPlan
    /\ nestChild = NewChild
    /\ nest = NewNLNest

varsNest == <<nestPlan, nestChild, nest>>

NoStreamPlan == [items |-> <<>>, refuseAt |-> 0]
IdleStream ==
    /\ streamPlan = NoStreamPlan
    /\ stream = NewStream

varsStream == <<streamPlan, stream>>

NoAuditInfo == [AuditEnabled |-> FALSE, EventDisabled |-> {}, UserWhitelisted |-> {}]
NoAuditable == [eventType |-> "", eventUsers |-> <<>>]
IdleAudit ==
    /\ auditInfo = NoAuditInfo
    /\ auditable = NoAuditable
    /\ recordedEvents = <<>>
    /\ submitted = FALSE

varsAudit == <<auditInfo, auditable, recordedEvents, submitted>>

NoCoveredNode ==
    [equivalent |-> FALSE, children |-> <<>>, options |-> coveredOptions(FALSE, FALSE, FALSE)]
NoCoveredRun == [done |-> FALSE, ret |-> CoveredTrue, calls |-> <<>>]
IdleCoveredBy ==
    /\ coveredNode = NoCoveredNode
    /\ coveredRun = NoCoveredRun

varsCoveredBy == <<coveredNode, coveredRun>>

(***************************************************************************)
(* The configuration store and the admin config endpoint                   *)
(* (cbConfigStore.doNameState, WhoAmI, State; doConfig)                    *)
(*                                                                         *)
(* The cluster reports its pool services as [rev, node]: the revision and  *)
(* what it lists for this node. A name is [host, port]. A caller is a      *)
(* request goroutine: [pc, kind, snap, ret, name, self, result, calls].    *)
(***************************************************************************)
STANDALONE == "standalone"
CLUSTERED  == "clustered"
STARTING   == "starting"
NoMode     == ""

Name(host, port) == [host |-> host, port |-> port]
NoName == Name("", 0)
\* server.GetIP(false)
GetIP == "127.0.0.1"

\* what the cluster lists for this node: not listed, n1ql provisioned but not
\* advertised, n1ql ports not ours, listed without a hostname, listed with a
\* fully qualified name
NodeReports == {"absent", "starting", "standalone", "ip", "fqdn"}

\* checkPoolServices (lines 842-910) on well-formed pool services
checkPoolServices(poolServices) ==
    CASE poolServices.node = "absent"     -> [whoAmI |-> NoName, state |-> NoMode]
      [] poolServices.node = "starting"   -> [whoAmI |-> NoName, state |-> STARTING]
      [] poolServices.node = "standalone" -> [whoAmI |-> NoName, state |-> STANDALONE]
      [] poolServices.node = "ip"         -> [whoAmI |-> Name(GetIP, 8091), state |-> CLUSTERED]
      [] poolServices.node = "fqdn"       -> [whoAmI |-> Name("node1", 8091), state |-> CLUSTERED]

\* server.HostNameandPort(whoAmI)
HostName(whoAmI) == whoAmI.host

\* lines 755-756, 791-792, 830-831
NoMoreChecksFor(whoAmI, state) ==
    state = STANDALONE \/ (state = CLUSTERED /\ HostName(whoAmI) # GetIP)

\* NewConfigstore (lines 508-524), with its RWMutex: the writer and the
\* readers holding it
NewConfigstore ==
    [writer |-> "none", readers |-> {}, noMoreChecks |-> FALSE, poolName |-> "",
     poolSrvRev |-> -999, whoAmI |-> NoName, state |-> NoMode]

\* the store after whoAmI, state and noMoreChecks were set (lines 748-756)
Cached(store, r) ==
    [store EXCEPT !.whoAmI = r.whoAmI, !.state = r.state,
                  !.noMoreChecks = NoMoreChecksFor(r.whoAmI, r.state)]

\* lines 747-758: the update after the promotion of the lock
UpdateAfterPromotion(store, snap) ==
    IF snap.rev > store.poolSrvRev THEN Cached(store, checkPoolServices(snap))
    ELSE store

\* lines 773-839, under the write lock: the store and the values returned
SlowPath(store, poolServices) ==
    LET r == checkPoolServices(poolServices)
        cached == [store |-> store, whoAmI |-> store.whoAmI, state |-> store.state]
    IN  IF store.noMoreChecks THEN cached
        ELSE IF store.poolName # "" /\ poolServices.rev = store.poolSrvRev THEN cached
        ELSE IF store.poolName # "" /\ r.state # NoMode
        THEN [store |-> Cached(store, r), whoAmI |-> r.whoAmI, state |-> r.state]
        ELSE \* start from scratch and scan the pools
             LET scratch == [store EXCEPT !.whoAmI = NoName, !.state = NoMode,
                                          !.poolName = "", !.noMoreChecks = FALSE]
             IN  IF r.state = NoMode
                 THEN [store |-> scratch, whoAmI |-> NoName, state |-> STARTING]
                 ELSE [store |-> [Cached(scratch, r) EXCEPT !.poolName = "default"],
                       whoAmI |-> r.whoAmI, state |-> r.state]

\* a query node of the cluster, and no node
QueryNode(name) == [name |-> name]
NoNode == QueryNode(Name("nil", 0))

\* lines 162-181 of doConfig: the query node of the cluster of that name
SelfOf(name, poolServices) ==
    IF checkPoolServices(poolServices).state = CLUSTERED
       /\ checkPoolServices(poolServices).whoAmI = name
    THEN QueryNode(name) ELSE NoNode

\* WhoAmI (lines 689-698): the name unless standalone
WhoAmIName(ret) == IF ret.state # STANDALONE THEN ret.whoAmI ELSE NoName

NoSnap == [rev |-> 0, node |-> "absent"]
NoRet == [whoAmI |-> NoName, state |-> NoMode]
NewCaller ==
    [pc |-> "idle", kind |-> "State", snap |-> NoSnap, ret |-> NoRet,
     name |-> NoName, self |-> NoNode, result |-> NoNode, calls |-> 0]

\* var localConfig (lines 140-144), with the holder of its Mutex
NewLocalConfig == [owner |-> "none", name |-> NoName, myConfig |-> NoNode]

NewCluster == [rev |-> 1, node |-> "absent"]
IdleConfig ==
    /\ cbStore = NewConfigstore
    /\ cluster = NewCluster
    /\ caller = <<>>
    /\ localConfig = NewLocalConfig

varsConfig == <<cbStore, cluster, caller, localConfig>>

(***************************************************************************)
(* Span evaluation (evalSpan2)                                             *)
(*                                                                         *)
(* A plan span is [Seek, Ranges]; a range is [Low, High]. Each expression  *)
(* is given by what its evaluation returns: a value, empty, or an error.   *)
(* A datastore span is [from, Seek, Ranges]: from is the position of the   *)
(* plan span it was made of.                                               *)
(***************************************************************************)
EvalOutcome == {"value", "empty", "error"}

\* the inner loop of evalSpan2 (lines 194-214) from range i on, with the
\* ranges appended so far: the ranges of the datastore span and the error
RECURSIVE EvalRanges(_, _, _)
EvalRanges(psRanges, i, dsRanges) ==
    IF i > Len(psRanges) THEN [Ranges |-> dsRanges, err |-> FALSE]
    ELSE LET psRange == psRanges[i]
         IN  IF psRange.Low = "error" THEN [Ranges |-> dsRanges, err |-> TRUE]
             ELSE IF psRange.Low = "empty" THEN [Ranges |-> dsRanges, err |-> FALSE]
             ELSE IF psRange.High = "error" THEN [Ranges |-> dsRanges, err |-> TRUE]
             ELSE IF psRange.High = "empty" THEN [Ranges |-> dsRanges, err |-> FALSE]
             ELSE EvalRanges(psRanges, i + 1, Append(dsRanges, psRange))

\* the outer loop of evalSpan2 (lines 185-220) from span i on
RECURSIVE EvalSpans(_, _, _)
EvalSpans(pspans, i, dspans) ==
    IF i > Len(pspans) THEN [dspans |-> dspans, err |-> FALSE]
    ELSE LET ps == pspans[i]
             ds == EvalRanges(ps.Ranges, 1, <<>>)
         IN  IF ps.Seek = "error" \/ ds.err THEN [dspans |-> <<>>, err |-> TRUE]
             ELSE EvalSpans(pspans, i + 1,
                     IF Len(ds.Ranges) > 0
                     THEN Append(dspans, [from |-> i, Seek |-> ps.Seek, Ranges |-> ds.Ranges])
                     ELSE dspans)

\* evalSpan2 (lines 179-225): the datastore spans, empty and the error
evalSpan2(pspans) ==
    LET r == EvalSpans(pspans, 1, <<>>)
    IN  [done |-> TRUE, dspans |-> r.dspans,
         empty |-> ~r.err /\ Len(r.dspans) = 0, err |-> r.err]

NoSpanResult == [done |-> FALSE, dspans |-> <<>>, empty |-> FALSE, err |-> FALSE]
IdleSpans ==
    /\ spanInput = <<>>
    /\ spanResult = NoSpanResult

varsSpans == <<spanInput, spanResult>>

(***************************************************************************)
(* Authorization of admin requests (cbConfigStore.Authorize)               *)
(*                                                                         *)
(* A credential is given by what cbauth says of it: "bad" fails to         *)
(* authenticate, "none" is allowed nothing, "reader" is allowed            *)
(* cluster.settings!read, "admin" also cluster.settings!write.             *)
(***************************************************************************)
PRIV_READ == "read"
PRIV_SYS_ADMIN == "sysadmin"
PRIV_OTHER == "other"
Privileges == {PRIV_READ, PRIV_SYS_ADMIN, PRIV_OTHER}
Credentials == {"bad", "none", "reader", "admin"}

\* auth.IsAllowed(permission) for an authenticated credential
IsAllowed(credential, permission) ==
    \/ credential = "admin"
    \/ credential = "reader" /\ permission = "cluster.settings!read"

\* the switch on one requested privilege (lines 660-680)
AuthorizeRequested(credential, requested) ==
    CASE requested = PRIV_SYS_ADMIN ->
            IF IsAllowed(credential, "cluster.settings!write") THEN "ok" ELSE "error"
      [] requested = PRIV_READ ->
            IF IsAllowed(credential, "cluster.settings!read") THEN "ok" ELSE "error"
      [] OTHER -> "error"

\* Authorize (lines 649-685) when the range over the credentials map yields
\* the credential first: with privileges to test the first of them returns,
\* without any the loop ends and the request is not recognized
AuthorizeFrom(first, credentials, privileges) ==
    IF credentials = {} THEN "error"
    ELSE IF privileges = <<>> THEN "error"
    ELSE IF first = "bad" THEN "error"
    ELSE AuthorizeRequested(first, privileges[1])

NoAuthRequest == [credentials |-> {}, privileges |-> <<>>]
IdleAuth ==
    /\ authRequest = NoAuthRequest
    /\ authResult = "none"

varsAuth == <<authRequest, authResult>>

\* the configuration store, the span evaluation and the authorization at rest
IdleServices == IdleConfig /\ IdleSpans /\ IdleAuth
varsServices == <<varsConfig, varsSpans, varsAuth>>

\* the execution runtime, the audit and the covering test at rest
IdleExecution ==
    IdleScan /\ IdleDistinct /\ IdleNest /\ IdleStream /\ IdleAudit /\ IdleCoveredBy
varsExecution ==
    <<varsScan, varsDistinct, varsNest, varsStream, varsAudit, varsCoveredBy>>

varsBuild == <<stmt, builder, plan, built>>
varsClassify == <<pred, isOnclause, baseKeyspaces, classifier, classified>>
varsOr == <<args, orResult>>
varsCovers == <<operandCovers, covers, coversIn, coversDone>>
varsValue == <<node, value, valueRet, evaluations>>

----
(***************************************************************************)
(* SpecOr: Or.Apply on every argument list of up to MaxArgs values         *)
(***************************************************************************)
ArgLists == UNION {[1..n -> Values] : n \in 0..MaxArgs}

InitOr ==
    /\ args \in ArgLists
    /\ orResult = NoValue
    /\ IdleCovers
    /\ IdleValue
    /\ IdleClassify
    /\ IdleBuild
    /\ IdleExecution
    /\ IdleServices

Apply ==
    /\ orResult = NoValue
    /\ orResult' = OrApply(args)
    /\ UNCHANGED <<args, varsCovers, varsValue, varsClassify, varsBuild, varsExecution, varsServices>>

NextOr == Apply

SpecOr == InitOr /\ [][NextOr]_vars

----
(***************************************************************************)
(* SpecCovers: Or.FilterCovers on every list of 1..MaxOperands operands    *)
(***************************************************************************)
OperandLists == UNION {[1..n -> CoverMaps] : n \in 1..MaxOperands}

\* what the caller's map holds already: nothing, or a cover for "y"
CallerCovers == {EmptyCovers, [s \in {"y"} |-> Number(2)]}

InitCovers ==
    /\ operandCovers \in OperandLists
    /\ covers \in CallerCovers
    /\ coversIn = covers
    /\ coversDone = FALSE
    /\ IdleOr
    /\ IdleValue
    /\ IdleClassify
    /\ IdleBuild
    /\ IdleExecution
    /\ IdleServices

FilterCovers ==
    /\ ~coversDone
    /\ covers' = OrFilterCovers(operandCovers, covers)
    /\ coversDone' = TRUE
    /\ UNCHANGED <<operandCovers, coversIn, varsOr, varsValue, varsClassify, varsBuild, varsExecution, varsServices>>

NextCovers == FilterCovers

SpecCovers == InitCovers /\ [][NextCovers]_vars

----
(***************************************************************************)
(* SpecValue: Value() and ResetValue() on every node of up to MaxChildren  *)
(* children                                                                *)
(***************************************************************************)
ChildLists == UNION {[1..n -> Children] : n \in 0..MaxChildren}
Nodes == [volatile : BOOLEAN, conditional : BOOLEAN, children : ChildLists,
          eval : EvalOutcomes]

InitValue ==
    /\ node \in Nodes
    /\ value = Unset
    /\ valueRet = Unset
    /\ evaluations = 0
    /\ IdleOr
    /\ IdleCovers
    /\ IdleClassify
    /\ IdleBuild
    /\ IdleExecution
    /\ IdleServices

\* this.Value()
Value ==
    /\ LET r == ExprValue(node, value)
       IN  /\ value' = r.value
           /\ valueRet' = r.ret
           /\ evaluations' = evaluations + r.evals
    /\ UNCHANGED <<node, varsOr, varsCovers, varsClassify, varsBuild, varsExecution, varsServices>>

\* this.ResetValue(): this.value = nil, and the children are reset too (they
\* compute the same Value() again)
ResetValue ==
    /\ value' = Unset
    /\ valueRet' = Unset
    /\ evaluations' = 0
    /\ UNCHANGED <<node, varsOr, varsCovers, varsClassify, varsBuild, varsExecution, varsServices>>

NextValue == Value \/ ResetValue

SpecValue == InitValue /\ [][NextValue]_vars

----
(***************************************************************************)
(* SpecClassify: ClassifyExpr on a predicate of up to MaxConjuncts         *)
(* conjuncts, as a WHERE clause or as an ON clause with some keyspaces     *)
(* already planned                                                         *)
(***************************************************************************)
MaxConjuncts == 2

\* the shapes of a conjunct
ConjunctShapes ==
    {A1, B1, J, TRUE_EXPR, FALSE_EXPR, Not(A1), Not(J),
     And(<<A1, B1>>), And(<<A2, J>>),
     Or(<<A1, A2>>), Or(<<A1, B1>>), Or(<<A1, J>>), Or(<<A1, Or(<<A2, B1>>)>>),
     Not(Or(<<A1, A2>>)), Not(Or(<<A1, B1>>)), Not(Or(<<J, B1>>)),
     Not(And(<<A1, B1>>)),
     Or(<<And(<<A1, B1>>), And(<<A2, B1>>)>>),
     Or(<<And(<<A1, J>>), A2>>),
     Or(<<And(<<A1, B1>>), J>>),
     Or(<<And(<<A1, A2>>), And(<<A1, J>>)>>),
     Or(<<And(<<A1, Or(<<A2, B1>>)>>), A2>>),
     Or(<<Not(Or(<<A1, A2>>)), And(<<A2, B1>>)>>)}

Predicates ==
    ConjunctShapes \cup
    UNION {{And(ops) : ops \in [1..n -> ConjunctShapes]} : n \in 2..MaxConjuncts}

\* the keyspaces whose plan is done when an ON clause is classified
PlanDoneSets == {{}, {"a"}, {"b"}}

InitClassify ==
    /\ pred \in Predicates
    /\ isOnclause \in BOOLEAN
    /\ \E done \in PlanDoneSets :
          /\ ~isOnclause => done = {}
          /\ baseKeyspaces = [k \in Keyspaces |-> newBaseKeyspace(k \in done)]
    /\ classifier = NoClassifier
    /\ classified = FALSE
    /\ IdleOr
    /\ IdleCovers
    /\ IdleValue
    /\ IdleBuild
    /\ IdleExecution
    /\ IdleServices

ClassifyExpr ==
    /\ ~classified
    /\ LET r == ClassifyExprOn(pred, baseKeyspaces, isOnclause)
       IN  /\ baseKeyspaces' = r.bk
           /\ classifier' = [recursion |-> r.recursion, recurseExpr |-> r.recurseExpr,
                             recursionJoin |-> r.recursionJoin,
                             recurseJoinExpr |-> r.recurseJoinExpr]
    /\ classified' = TRUE
    /\ UNCHANGED <<pred, isOnclause, varsOr, varsCovers, varsValue, varsBuild, varsExecution, varsServices>>

NextClassify == ClassifyExpr

SpecClassify == InitClassify /\ [][NextClassify]_vars

----
(***************************************************************************)
(* SpecBuild: Build on SELECT statements whose subresult is a subselect or *)
(* a tree of UNION / UNION ALL of subselects, up to MaxUnionDepth deep     *)
(***************************************************************************)
MaxUnionDepth == 1

\* FROM clauses of the subselect with the given id
KeyspaceTerms(id) ==
    {[kind |-> "keyspace", id |-> id, keys |-> k, lookup |-> l] :
        k \in BOOLEAN, l \in {"ok", "noNamespace", "noKeyspace", "noIndex"}}
FromClauses(id) ==
    {[kind |-> "none", id |-> id], [kind |-> "parent", id |-> id]}
    \cup KeyspaceTerms(id)
    \cup {[kind |-> k, id |-> id, rightLookup |-> r,
           left |-> [kind |-> "keyspace", id |-> id, keys |-> FALSE, lookup |-> l]] :
             k \in {"join", "nest"}, r \in {"ok", "noKeyspace"}, l \in {"ok", "noIndex"}}
    \cup {[kind |-> "unnest", id |-> id,
           left |-> [kind |-> "keyspace", id |-> id, keys |-> FALSE, lookup |-> "ok"]]}

Groups == {NoGroup} \cup [present : {TRUE}, letting : BOOLEAN, having : BOOLEAN]

Subselects(id) ==
    [kind : {"subselect"}, id : {id}, from : FromClauses(id), let : BOOLEAN,
     where : BOOLEAN, group : Groups, aggs : BOOLEAN, distinct : BOOLEAN]

\* the subselects used as operands of a UNION: FROM a keyspace, or nothing
UnionOperands(id) ==
    {sel \in Subselects(id) :
        /\ sel.from.kind \in {"keyspace", "none"}
        /\ sel.from.kind = "keyspace" => (~sel.from.keys /\ sel.from.lookup \in {"ok", "noKeyspace"})
        /\ ~sel.let /\ ~sel.aggs /\ sel.group = NoGroup /\ ~sel.where}

RECURSIVE Pow2(_)
Pow2(n) == IF n = 0 THEN 1 ELSE 2 * Pow2(n - 1)

\* the UNION trees of depth up to d whose subselects have the ids from lo on
RECURSIVE UnionTrees(_, _)
UnionTrees(d, lo) ==
    IF d = 0 THEN UnionOperands(lo)
    ELSE UnionTrees(d - 1, lo)
         \cup {[kind |-> k, id |-> 100 + 10 * d + lo, first |-> f, second |-> g] :
                 k \in {"union", "unionAll"},
                 f \in UnionTrees(d - 1, lo),
                 g \in UnionTrees(d - 1, lo + Pow2(d - 1))}

Subresults == Subselects(1) \cup UnionTrees(MaxUnionDepth, 1)

Statements ==
    [kind : {"select"}, id : {200}, subresult : Subresults,
     order : BOOLEAN, offset : BOOLEAN, limit : BOOLEAN]

InitBuild ==
    /\ stmt \in Statements
    /\ builder = newBuilder
    /\ plan = NilOp
    /\ built = "no"
    /\ IdleExecution
    /\ IdleServices
    /\ IdleOr
    /\ IdleCovers
    /\ IdleValue
    /\ IdleClassify

Build ==
    /\ built = "no"
    /\ LET r == BuildOf(stmt)
       IN  /\ builder' = r.builder
           /\ plan' = r.plan
           /\ built' = r.built
    /\ UNCHANGED <<stmt, varsOr, varsCovers, varsValue, varsClassify, varsExecution, varsServices>>

NextBuild == Build

SpecBuild == InitBuild /\ [][NextBuild]_vars

----
(***************************************************************************)
(* SpecBuildAll: Build on a statement of any kind: a SELECT of SpecBuild,  *)
(* a DML or DDL statement, or the EXPLAIN of one of these                  *)
(***************************************************************************)
DMLStatements ==
    [kind : {"insert", "upsert", "delete", "update", "merge"}, id : {300}]
DDLStatements ==
    [kind : {"createIndex", "dropIndex", "alterIndex"}, id : {300}]
Explainable == Statements \cup DMLStatements \cup DDLStatements
AllStatements ==
    Explainable \cup {[kind |-> "explain", id |-> 400, statement |-> st] : st \in Explainable}

InitBuildAll ==
    /\ stmt \in AllStatements
    /\ builder = newBuilder
    /\ plan = NilOp
    /\ built = "no"
    /\ IdleExecution
    /\ IdleServices
    /\ IdleOr
    /\ IdleCovers
    /\ IdleValue
    /\ IdleClassify

NextBuildAll == Build

SpecBuildAll == InitBuildAll /\ [][NextBuildAll]_vars

----
(***************************************************************************)
(* SpecScan: one run of IndexScan2 over an index holding up to MaxEntries  *)
(* entries, with the producer goroutine, the index and a sender of stops   *)
(***************************************************************************)
MaxEntries == 3

RECURSIVE SeqsUpTo(_, _)
\* the sequences over S of length up to n
SeqsUpTo(S, n) ==
    IF n = 0 THEN {<<>>}
    ELSE LET shorter == SeqsUpTo(S, n - 1)
         IN  shorter \cup {Append(q, x) : q \in shorter, x \in S}

IdlePlanning == IdleOr /\ IdleCovers /\ IdleValue /\ IdleClassify /\ IdleBuild
varsPlanning == <<varsOr, varsCovers, varsValue, varsClassify, varsBuild>>

InitScan ==
    /\ scanPlan \in [entries : {[i \in 1..Len(q) |-> IndexEntry(q[i])] :
                                   q \in SeqsUpTo(PrimaryKeys, MaxEntries)},
                     spans : {"ok", "empty", "error"},
                     covering : BOOLEAN]
    /\ conn = NewIndexConnection
    /\ producer = NewProducer
    /\ indexScan = NewIndexScan2
    /\ IdlePlanning
    /\ IdleDistinct
    /\ IdleNest
    /\ IdleStream
    /\ IdleAudit
    /\ IdleCoveredBy
    /\ IdleServices

\* RunOnce up to the loop (lines 52-81): the deferred calls are registered,
\* the connection is made and the producer goroutine is started
ScanRunOnce ==
    /\ indexScan.pc = "created"
    /\ indexScan' = [indexScan EXCEPT !.pc = "loop", !.defers = ScanDefers]
    /\ producer' = [producer EXCEPT !.pc = "evalSpan"]
    /\ UNCHANGED <<scanPlan, conn, varsPlanning, varsDistinct, varsNest, varsStream, varsAudit, varsCoveredBy, varsServices>>

\* a plausible slip: the entry channel is closed only when the spans are
\* empty, not when their evaluation failed
ProducerEvalSpanErrorLeavesOpen ==
    /\ producer.pc = "evalSpan"
    /\ IF scanPlan.spans # "ok"
       THEN /\ producer' = [producer EXCEPT
                   !.pc = "done",
                   !.errors = IF scanPlan.spans = "error"
                              THEN Append(@, "Evaluation: span") ELSE @]
            /\ conn' = [conn EXCEPT !.closed = scanPlan.spans = "empty"]
       ELSE /\ producer' = [producer EXCEPT !.pc = "scan2", !.scan2 = TRUE,
                                            !.rest = scanPlan.entries]
            /\ conn' = conn
    /\ UNCHANGED <<scanPlan, indexScan, varsPlanning, varsDistinct, varsNest, varsStream, varsAudit, varsCoveredBy, varsServices>>

\* IndexScan2.scan (lines 142-177): span evaluation, then Index.Scan2
ProducerEvalSpan ==
    /\ producer.pc = "evalSpan"
    /\ IF scanPlan.spans # "ok"
       THEN /\ producer' = [producer EXCEPT
                   !.pc = "done",
                   !.errors = IF scanPlan.spans = "error"
                              THEN Append(@, "Evaluation: span") ELSE @]
            /\ conn' = [conn EXCEPT !.closed = TRUE]
       ELSE /\ producer' = [producer EXCEPT !.pc = "scan2", !.scan2 = TRUE,
                                            !.rest = scanPlan.entries]
            /\ conn' = conn
    /\ UNCHANGED <<scanPlan, indexScan, varsPlanning, varsDistinct, varsNest, varsStream, varsAudit, varsCoveredBy, varsServices>>

\* Index.Scan2 streams one entry into conn.EntryChannel()
IndexSendEntry ==
    /\ producer.pc = "scan2"
    /\ producer.rest # <<>>
    /\ ~conn.closed
    /\ Len(conn.entries) < EntryCap
    /\ conn' = [conn EXCEPT !.entries = Append(@, Head(producer.rest))]
    /\ producer' = [producer EXCEPT !.rest = Tail(@)]
    /\ UNCHANGED <<scanPlan, indexScan, varsPlanning, varsDistinct, varsNest, varsStream, varsAudit, varsCoveredBy, varsServices>>

\* Index.Scan2 closes the entry channel: at the end of the entries, or once
\* it has seen the stop of the connection
IndexClose ==
    /\ producer.pc = "scan2"
    /\ producer.rest = <<>> \/ conn.stopped
    /\ conn' = [conn EXCEPT !.closed = TRUE]
    /\ producer' = [producer EXCEPT !.pc = "done"]
    /\ UNCHANGED <<scanPlan, indexScan, varsPlanning, varsDistinct, varsNest, varsStream, varsAudit, varsCoveredBy, varsServices>>

\* lines 84-125 and 132-137: getItemEntry and the making of the item
ScanGetItemEntry ==
    /\ indexScan.pc = "loop"
    /\ GetItemEntryEnabled(indexScan.stopChannel, conn)
    /\ LET r == getItemEntry(indexScan.stopChannel, conn)
       IN  /\ conn' = [conn EXCEPT !.entries = r.rest]
           /\ indexScan' =
                IF r.cont /\ r.entry # NoEntry
                THEN [indexScan EXCEPT !.pc = "sendItem",
                         !.av = NewAnnotatedItem(r.entry, scanPlan.covering)]
                ELSE [indexScan EXCEPT !.pc = "defers"]
    /\ UNCHANGED <<scanPlan, producer, varsPlanning, varsDistinct, varsNest, varsStream, varsAudit, varsCoveredBy, varsServices>>

\* lines 126-131: sendItem and the count of documents
ScanSendItem ==
    /\ indexScan.pc = "sendItem"
    /\ LET r == sendItem(indexScan.stopChannel, indexScan.output, indexScan.av)
           docs == indexScan.docs + 1
           flush == docs > PHASE_UPDATE_COUNT
       IN  indexScan' = [indexScan EXCEPT
                !.pc = IF r.ok THEN "loop" ELSE "defers",
                !.av = NoItem,
                !.output = r.output,
                !.docs = IF flush THEN 0 ELSE docs,
                !.phaseCount = IF flush THEN @ + docs ELSE @]
    /\ UNCHANGED <<scanPlan, conn, producer, varsPlanning, varsDistinct, varsNest, varsStream, varsAudit, varsCoveredBy, varsServices>>

\* the next deferred call of RunOnce
ScanDeferred ==
    /\ indexScan.pc = "defers"
    /\ IF indexScan.defers = <<>>
       THEN /\ indexScan' = [indexScan EXCEPT !.pc = "done"]
            /\ conn' = conn
       ELSE LET call == Head(indexScan.defers)
                popped == [indexScan EXCEPT !.defers = Tail(@)]
            IN  /\ indexScan' =
                     CASE call = "countDocs" ->
                            [popped EXCEPT !.phaseCount = @ + indexScan.docs]
                       [] call = "notify" -> [popped EXCEPT !.notified = TRUE]
                       [] call = "close"  -> [popped EXCEPT !.closed = TRUE]
                       [] OTHER -> popped
                /\ conn' = IF call = "notifyConn"
                           THEN [conn EXCEPT !.stopped = TRUE] ELSE conn
    /\ UNCHANGED <<scanPlan, producer, varsPlanning, varsDistinct, varsNest, varsStream, varsAudit, varsCoveredBy, varsServices>>

\* IndexScan2.SendStop (lines 235-237)
ScanSendStop ==
    /\ ~indexScan.stopChannel
    /\ indexScan.pc # "done"
    /\ indexScan' = [indexScan EXCEPT !.stopChannel = TRUE]
    /\ UNCHANGED <<scanPlan, conn, producer, varsPlanning, varsDistinct, varsNest, varsStream, varsAudit, varsCoveredBy, varsServices>>

NextScan ==
    \/ ScanRunOnce
    \/ ProducerEvalSpan
    \/ IndexSendEntry
    \/ IndexClose
    \/ ScanGetItemEntry
    \/ ScanSendItem
    \/ ScanDeferred
    \/ ScanSendStop

SpecScan == InitScan /\ [][NextScan]_vars

\* the operator's goroutine, the producer's goroutine and the index are
\* scheduled: a step that stays possible is taken
SpecScanFair == SpecScan /\ WF_vars(NextScan)

----
(***************************************************************************)
(* SpecDistinct: one run of DistinctScan over an inner scan delivering up  *)
(* to MaxItems items, with the inner scan and a sender of stops            *)
(***************************************************************************)
MaxItems == 3
Limits == {NoLimit, 1, 2}

InitDistinct ==
    /\ distinctPlan \in
          [items : {[i \in 1..Len(q) |-> Item(q[i])] :
                       q \in SeqsUpTo(PrimaryKeys \cup {"bad"}, MaxItems)},
           limit : Limits]
    /\ inner = NewInner
    /\ distinctScan = NewDistinctScan
    /\ IdlePlanning
    /\ IdleScan
    /\ IdleNest
    /\ IdleStream
    /\ IdleAudit
    /\ IdleCoveredBy
    /\ IdleServices

\* RunOnce up to the loop (lines 503-522)
DistinctRunOnce ==
    /\ distinctScan.pc = "created"
    /\ distinctScan' = [distinctScan EXCEPT !.pc = "checkStop", !.n = 1,
                                            !.defers = DistinctDefers]
    /\ inner' = [inner EXCEPT !.pc = "running", !.rest = distinctPlan.items]
    /\ UNCHANGED <<distinctPlan, varsPlanning, varsScan, varsNest, varsStream, varsAudit, varsCoveredBy, varsServices>>

\* lines 527-531: the stop channel is looked at first
DistinctCheckStop ==
    /\ distinctScan.pc = "checkStop"
    /\ distinctScan' = [distinctScan EXCEPT
            !.pc = IF distinctScan.stopChannel THEN "await" ELSE "select"]
    /\ UNCHANGED <<distinctPlan, inner, varsPlanning, varsScan, varsNest, varsStream, varsAudit, varsCoveredBy, varsServices>>

\* lines 533-539, first case: an item, or the end of the item channel
DistinctReceive ==
    /\ distinctScan.pc = "select"
    /\ \/ /\ inner.items # <<>>
          /\ distinctScan' = [distinctScan EXCEPT !.pc = "processKey",
                                  !.item = Head(inner.items), !.inDocs = @ + 1]
          /\ inner' = [inner EXCEPT !.items = Tail(@)]
       \/ /\ inner.items = <<>>
          /\ inner.closed
          /\ distinctScan' = [distinctScan EXCEPT !.pc = "await"]
          /\ inner' = inner
    /\ UNCHANGED <<distinctPlan, varsPlanning, varsScan, varsNest, varsStream, varsAudit, varsCoveredBy, varsServices>>

\* lines 540-541: the inner scan has notified that it stopped
DistinctChildDone ==
    /\ distinctScan.pc = "select"
    /\ distinctScan.childChannel
    /\ distinctScan' = [distinctScan EXCEPT !.pc = "checkStop", !.n = @ - 1,
                                            !.childChannel = FALSE]
    /\ UNCHANGED <<distinctPlan, inner, varsPlanning, varsScan, varsNest, varsStream, varsAudit, varsCoveredBy, varsServices>>

\* lines 542-543: a stop seen while waiting
DistinctSeeStop ==
    /\ distinctScan.pc = "select"
    /\ distinctScan.stopChannel
    /\ distinctScan' = [distinctScan EXCEPT !.pc = "await"]
    /\ UNCHANGED <<distinctPlan, inner, varsPlanning, varsScan, varsNest, varsStream, varsAudit, varsCoveredBy, varsServices>>

\* line 538: processKey on the item received
DistinctProcessKey ==
    /\ distinctScan.pc = "processKey"
    /\ LET r == processKey(distinctScan.keys, distinctScan.stopChannel,
                           distinctScan.output, distinctScan.item,
                           distinctPlan.limit)
       IN  distinctScan' = [distinctScan EXCEPT
                !.pc = IF r.ok THEN "checkStop" ELSE "await",
                !.item = NoItem,
                !.keys = r.keys,
                !.output = r.output,
                !.errors = IF r.error = "none" THEN @ ELSE Append(@, r.error)]
    /\ UNCHANGED <<distinctPlan, inner, varsPlanning, varsScan, varsNest, varsStream, varsAudit, varsCoveredBy, varsServices>>

\* lines 547-552: the inner scan is told to stop and awaited
DistinctNotifyChildren ==
    /\ distinctScan.pc = "await"
    /\ IF distinctScan.n > 0
       THEN /\ distinctScan' = [distinctScan EXCEPT !.pc = "wait"]
            /\ inner' = [inner EXCEPT !.stopChannel = TRUE]
       ELSE /\ distinctScan' = [distinctScan EXCEPT !.pc = "defers"]
            /\ inner' = inner
    /\ UNCHANGED <<distinctPlan, varsPlanning, varsScan, varsNest, varsStream, varsAudit, varsCoveredBy, varsServices>>

DistinctAwaitChild ==
    /\ distinctScan.pc = "wait"
    /\ distinctScan.childChannel
    /\ distinctScan' = [distinctScan EXCEPT !.pc = "defers",
                                            !.childChannel = FALSE]
    /\ UNCHANGED <<distinctPlan, inner, varsPlanning, varsScan, varsNest, varsStream, varsAudit, varsCoveredBy, varsServices>>

\* the next deferred call of RunOnce
DistinctDeferred ==
    /\ distinctScan.pc = "defers"
    /\ IF distinctScan.defers = <<>>
       THEN distinctScan' = [distinctScan EXCEPT !.pc = "done"]
       ELSE LET call == Head(distinctScan.defers)
                popped == [distinctScan EXCEPT !.defers = Tail(@)]
            IN  distinctScan' =
                   CASE call = "poolPut" -> [popped EXCEPT !.keys = {}]
                     [] call = "notify"  -> [popped EXCEPT !.notified = TRUE]
                     [] call = "close"   -> [popped EXCEPT !.closed = TRUE]
                     [] OTHER -> popped
    /\ UNCHANGED <<distinctPlan, inner, varsPlanning, varsScan, varsNest, varsStream, varsAudit, varsCoveredBy, varsServices>>

\* a stop is sent to the operator: the channel has room for one
DistinctSendStop ==
    /\ ~distinctScan.stopChannel
    /\ distinctScan.pc \notin {"created", "done"}
    /\ distinctScan' = [distinctScan EXCEPT !.stopChannel = TRUE,
                            !.outputAtStop = Len(distinctScan.output)]
    /\ UNCHANGED <<distinctPlan, inner, varsPlanning, varsScan, varsNest, varsStream, varsAudit, varsCoveredBy, varsServices>>

\* the inner scan sends its next item
InnerSend ==
    /\ inner.pc = "running"
    /\ ~inner.stopChannel
    /\ inner.rest # <<>>
    /\ Len(inner.items) < ItemCap
    /\ inner' = [inner EXCEPT !.items = Append(@, Head(inner.rest)),
                              !.rest = Tail(@)]
    /\ UNCHANGED <<distinctPlan, distinctScan, varsPlanning, varsScan, varsNest, varsStream, varsAudit, varsCoveredBy, varsServices>>

\* the inner scan ends: nothing left to send, or it was told to stop
InnerEnd ==
    /\ inner.pc = "running"
    /\ inner.rest = <<>> \/ inner.stopChannel
    /\ inner' = [inner EXCEPT !.pc = "ending"]
    /\ UNCHANGED <<distinctPlan, distinctScan, varsPlanning, varsScan, varsNest, varsStream, varsAudit, varsCoveredBy, varsServices>>

\* the inner scan notifies its parent that it has stopped
InnerNotify ==
    /\ inner.pc = "ending"
    /\ ~inner.notified
    /\ inner' = [inner EXCEPT !.notified = TRUE,
                              !.pc = IF inner.closed THEN "done" ELSE @]
    /\ distinctScan' = [distinctScan EXCEPT !.childChannel = TRUE]
    /\ UNCHANGED <<distinctPlan, varsPlanning, varsScan, varsNest, varsStream, varsAudit, varsCoveredBy, varsServices>>

\* the inner scan closes its item channel
InnerClose ==
    /\ inner.pc = "ending"
    /\ ~inner.closed
    /\ inner' = [inner EXCEPT !.closed = TRUE,
                              !.pc = IF inner.notified THEN "done" ELSE @]
    /\ UNCHANGED <<distinctPlan, distinctScan, varsPlanning, varsScan, varsNest, varsStream, varsAudit, varsCoveredBy, varsServices>>

DistinctSteps ==
    \/ DistinctRunOnce
    \/ DistinctCheckStop
    \/ DistinctReceive
    \/ DistinctChildDone
    \/ DistinctSeeStop
    \/ DistinctProcessKey
    \/ DistinctNotifyChildren
    \/ DistinctAwaitChild
    \/ DistinctDeferred

InnerSteps == InnerSend \/ InnerEnd \/ InnerNotify \/ InnerClose

NextDistinct == DistinctSteps \/ InnerSteps \/ DistinctSendStop

SpecDistinct == InitDistinct /\ [][NextDistinct]_vars

\* every goroutine that can take a step eventually takes one
SpecDistinctFair ==
    SpecDistinct /\ WF_vars(DistinctSteps) /\ WF_vars(InnerSteps)

----
(***************************************************************************)
(* SpecNest: one run of NLNest over one or two outer items (the second one *)
(* reopens the child); for each the inner child delivers a stream of up to *)
(* MaxInner items                                                          *)
(***************************************************************************)
MaxInner == 2

RightItems ==
    {RightItem("r1", "true"), RightItem("r2", "true"), RightItem("r1", "false"),
     RightItem("none", "true"), RightItem("r1", "error")}

\* the inner streams: under a constant ON clause every item evaluates to
\* that constant
InnerStreams(onclause) ==
    {q \in SeqsUpTo(RightItems, MaxInner) :
        \A i \in 1..Len(q) : onclause = "none" \/ q[i].on = onclause}

OuterStreams == {<<OuterItem("o1")>>, <<OuterItem("o1"), OuterItem("o2")>>}

InitNest ==
    /\ nestPlan \in [outer : BOOLEAN, onclause : {"none", "true", "false"},
                     items : OuterStreams]
    /\ nestChild = NewChild
    /\ nest = NewNLNest
    /\ IdlePlanning
    /\ IdleScan
    /\ IdleDistinct
    /\ IdleStream
    /\ IdleAudit
    /\ IdleCoveredBy
    /\ IdleServices

\* RunOnce and beforeItems (lines 292-315)
NestRunOnce ==
    /\ nest.pc = "created"
    /\ nest' = [nest EXCEPT
            !.pc = "getItem",
            !.input = nestPlan.items,
            !.ansiFlags = CASE nestPlan.onclause = "true"  -> {ANSI_ONCLAUSE_TRUE}
                            [] nestPlan.onclause = "false" -> {ANSI_ONCLAUSE_FALSE}
                            [] OTHER -> {}]
    /\ UNCHANGED <<nestPlan, nestChild, varsPlanning, varsScan, varsDistinct, varsStream, varsAudit, varsCoveredBy, varsServices>>

\* runConsumer: the next outer item, or the end on a stop or at the end of
\* the input
NestGetItem ==
    /\ nest.pc = "getItem"
    /\ nest' = IF nest.stopChannel \/ nest.input = <<>>
               THEN [nest EXCEPT !.pc = "afterItems"]
               ELSE [nest EXCEPT !.pc = "processItem", !.item = Head(nest.input),
                                 !.input = Tail(nest.input)]
    /\ UNCHANGED <<nestPlan, nestChild, varsPlanning, varsScan, varsDistinct, varsStream, varsAudit, varsCoveredBy, varsServices>>

\* a plausible slip: under a constant true ON clause the child is run again
\* without being stopped and reopened
NestStartChildKeepsOpen ==
    /\ nest.pc = "processItem"
    /\ \E q \in InnerStreams(nestPlan.onclause) :
         /\ nest' = [nest EXCEPT !.pc = "loop", !.stream = q,
                        !.right_items = <<>>, !.ok = TRUE, !.stopped = FALSE,
                        !.n = 1, !.ansiFlags = @ \cup {ANSI_REOPEN_CHILD}]
         /\ nestChild' =
              IF ANSI_REOPEN_CHILD \in nest.ansiFlags
                 /\ ANSI_ONCLAUSE_TRUE \notin nest.ansiFlags
              THEN [NewChild EXCEPT !.pc = "running", !.rest = q,
                       !.stops = nestChild.stops + 1,
                       !.reopens = nestChild.reopens + 1,
                       !.runs = nestChild.runs + 1]
              ELSE [nestChild EXCEPT !.pc = "running", !.rest = q,
                       !.runs = @ + 1]
    /\ UNCHANGED <<nestPlan, varsPlanning, varsScan, varsDistinct, varsStream, varsAudit, varsCoveredBy, varsServices>>

\* processItem up to the loop (lines 317-339)
NestStartChild ==
    /\ nest.pc = "processItem"
    /\ \E q \in InnerStreams(nestPlan.onclause) :
         /\ nest' = [nest EXCEPT !.pc = "loop", !.stream = q,
                        !.right_items = <<>>, !.ok = TRUE, !.stopped = FALSE,
                        !.n = 1, !.ansiFlags = @ \cup {ANSI_REOPEN_CHILD}]
         /\ nestChild' =
              IF ANSI_REOPEN_CHILD \in nest.ansiFlags
              THEN [NewChild EXCEPT !.pc = "running", !.rest = q,
                       !.stops = nestChild.stops + 1,
                       !.reopens = nestChild.reopens + 1,
                       !.runs = nestChild.runs + 1]
              ELSE [nestChild EXCEPT !.pc = "running", !.rest = q,
                       !.runs = @ + 1]
    /\ UNCHANGED <<nestPlan, varsPlanning, varsScan, varsDistinct, varsStream, varsAudit, varsCoveredBy, varsServices>>

\* getItemChildrenOp gives cont = false: a stop (lines 358-361)
NestSeeStop ==
    /\ nest.pc = "loop"
    /\ nest.stopChannel
    /\ nest' = [nest EXCEPT !.pc = "after", !.stopped = TRUE]
    /\ UNCHANGED <<nestPlan, nestChild, varsPlanning, varsScan, varsDistinct, varsStream, varsAudit, varsCoveredBy, varsServices>>

\* getItemChildrenOp gives an inner item (lines 345-352)
NestReceive ==
    /\ nest.pc = "loop"
    /\ ~nest.stopChannel
    /\ nestChild.items # <<>>
    /\ LET right_item == Head(nestChild.items)
           r == processAnsiExec(right_item, nest.ansiFlags)
       IN  nest' = [nest EXCEPT
                !.pc = IF r.ok THEN "loop" ELSE "after",
                !.ok = r.ok,
                !.errors = IF r.ok THEN @ ELSE @ + 1,
                !.right_items = IF r.ok /\ r.match THEN Append(@, right_item)
                                ELSE @]
    /\ nestChild' = [nestChild EXCEPT !.items = Tail(@)]
    /\ UNCHANGED <<nestPlan, varsPlanning, varsScan, varsDistinct, varsStream, varsAudit, varsCoveredBy, varsServices>>

\* getItemChildrenOp gives the child's notification (lines 353-354)
NestChildDone ==
    /\ nest.pc = "loop"
    /\ ~nest.stopChannel
    /\ nest.childChannel
    /\ nest' = [nest EXCEPT !.n = @ - 1, !.childChannel = FALSE]
    /\ UNCHANGED <<nestPlan, nestChild, varsPlanning, varsScan, varsDistinct, varsStream, varsAudit, varsCoveredBy, varsServices>>

\* getItemChildrenOp gives neither: the child's output has ended (lines
\* 355-357)
NestChildClosed ==
    /\ nest.pc = "loop"
    /\ ~nest.stopChannel
    /\ nestChild.items = <<>>
    /\ nestChild.closed
    /\ nest' = [nest EXCEPT !.pc = "after"]
    /\ UNCHANGED <<nestPlan, nestChild, varsPlanning, varsScan, varsDistinct, varsStream, varsAudit, varsCoveredBy, varsServices>>

\* a plausible slip: the child is told to stop but not awaited
NestNotifyChildrenNoWait ==
    /\ nest.pc = "after"
    /\ nest' = [nest EXCEPT !.pc = "finish"]
    /\ nestChild' = IF nest.n > 0 THEN [nestChild EXCEPT !.stopChannel = TRUE]
                    ELSE nestChild
    /\ UNCHANGED <<nestPlan, varsPlanning, varsScan, varsDistinct, varsStream, varsAudit, varsCoveredBy, varsServices>>

\* lines 364-367: the child is told to stop and awaited
NestNotifyChildren ==
    /\ nest.pc = "after"
    /\ IF nest.n > 0
       THEN /\ nest' = [nest EXCEPT !.pc = "waitChild"]
            /\ nestChild' = [nestChild EXCEPT !.stopChannel = TRUE]
       ELSE /\ nest' = [nest EXCEPT !.pc = "finish"]
            /\ nestChild' = nestChild
    /\ UNCHANGED <<nestPlan, varsPlanning, varsScan, varsDistinct, varsStream, varsAudit, varsCoveredBy, varsServices>>

\* childrenWaitNoStop
NestWaitChild ==
    /\ nest.pc = "waitChild"
    /\ nest.childChannel
    /\ nest' = [nest EXCEPT !.pc = "finish", !.childChannel = FALSE, !.n = 0]
    /\ UNCHANGED <<nestPlan, nestChild, varsPlanning, varsScan, varsDistinct, varsStream, varsAudit, varsCoveredBy, varsServices>>

\* what processItem does after the child has ended (lines 369-382): status is
\* how the run for this outer item went, emitted what it sent
NestOutcome ==
    IF nest.stopped THEN [status |-> "stopped", emitted |-> <<>>, error |-> FALSE]
    ELSE IF ~nest.ok THEN [status |-> "error", emitted |-> <<>>, error |-> FALSE]
    ELSE LET r == processAnsiNest(nest.item, nest.right_items, nestPlan.outer)
         IN  IF ~r.ok THEN [status |-> "error", emitted |-> <<>>, error |-> TRUE]
             ELSE IF r.joined = NoOuterItem
             THEN [status |-> "complete", emitted |-> <<>>, error |-> FALSE]
             ELSE LET sent == sendItem(nest.stopChannel, <<>>, r.joined)
                  IN  [status |-> IF sent.ok THEN "complete" ELSE "stopped",
                       emitted |-> sent.output, error |-> FALSE]

NestFinish ==
    /\ nest.pc = "finish"
    /\ LET r == NestOutcome
       IN  nest' = [nest EXCEPT
                !.pc = IF r.status = "complete" THEN "getItem" ELSE "afterItems",
                !.output = @ \o r.emitted,
                !.errors = IF r.error THEN @ + 1 ELSE @]
    /\ UNCHANGED <<nestPlan, nestChild, varsPlanning, varsScan, varsDistinct, varsStream, varsAudit, varsCoveredBy, varsServices>>

\* runConsumer: the end of the run, the output is closed
NestAfterItems ==
    /\ nest.pc = "afterItems"
    /\ nest' = [nest EXCEPT !.pc = "done", !.closed = TRUE]
    /\ UNCHANGED <<nestPlan, nestChild, varsPlanning, varsScan, varsDistinct, varsStream, varsAudit, varsCoveredBy, varsServices>>

\* NLNest.SendStop (lines 425-430)
NestSendStop ==
    /\ ~nest.stopChannel
    /\ nest.pc \notin {"created", "done"}
    /\ nest' = [nest EXCEPT !.stopChannel = TRUE]
    /\ nestChild' = [nestChild EXCEPT !.stopChannel = TRUE, !.stops = @ + 1]
    /\ UNCHANGED <<nestPlan, varsPlanning, varsScan, varsDistinct, varsStream, varsAudit, varsCoveredBy, varsServices>>

\* NLNest.reopen (lines 432-438), called on a nest whose run has ended:
\* baseReopen makes the operator as it was made, REOPEN_CHILD is cleared and
\* the child is reopened. The record of the run before starts anew.
NestReopen ==
    /\ nest.pc = "done"
    /\ nestChild.pc \in {"created", "done"}
    /\ ~nest.reopened
    /\ nest' = [NewNLNest EXCEPT
            !.ansiFlags = nest.ansiFlags \ {ANSI_REOPEN_CHILD},
            !.reopened = TRUE]
    /\ nestChild' = NewChild
    /\ UNCHANGED <<nestPlan, varsPlanning, varsScan, varsDistinct, varsStream, varsAudit, varsCoveredBy, varsServices>>

\* the child sends its next item
ChildSend ==
    /\ nestChild.pc = "running"
    /\ ~nestChild.stopChannel
    /\ nestChild.rest # <<>>
    /\ Len(nestChild.items) < ItemCap
    /\ nestChild' = [nestChild EXCEPT !.items = Append(@, Head(nestChild.rest)),
                                      !.rest = Tail(@)]
    /\ UNCHANGED <<nestPlan, nest, varsPlanning, varsScan, varsDistinct, varsStream, varsAudit, varsCoveredBy, varsServices>>

\* the child ends: nothing left to send, or it was told to stop
ChildEnd ==
    /\ nestChild.pc = "running"
    /\ nestChild.rest = <<>> \/ nestChild.stopChannel
    /\ nestChild' = [nestChild EXCEPT !.pc = "ending"]
    /\ UNCHANGED <<nestPlan, nest, varsPlanning, varsScan, varsDistinct, varsStream, varsAudit, varsCoveredBy, varsServices>>

\* the child notifies its parent that it has stopped
ChildNotify ==
    /\ nestChild.pc = "ending"
    /\ ~nestChild.notified
    /\ nestChild' = [nestChild EXCEPT !.notified = TRUE,
                        !.pc = IF nestChild.closed THEN "done" ELSE @]
    /\ nest' = [nest EXCEPT !.childChannel = TRUE]
    /\ UNCHANGED <<nestPlan, varsPlanning, varsScan, varsDistinct, varsStream, varsAudit, varsCoveredBy, varsServices>>

\* the child closes its output
ChildClose ==
    /\ nestChild.pc = "ending"
    /\ ~nestChild.closed
    /\ nestChild' = [nestChild EXCEPT !.closed = TRUE,
                        !.pc = IF nestChild.notified THEN "done" ELSE @]
    /\ UNCHANGED <<nestPlan, nest, varsPlanning, varsScan, varsDistinct, varsStream, varsAudit, varsCoveredBy, varsServices>>

NextNest ==
    \/ NestRunOnce
    \/ NestGetItem
    \/ NestStartChild
    \/ NestSeeStop
    \/ NestReceive
    \/ NestChildDone
    \/ NestChildClosed
    \/ NestNotifyChildren
    \/ NestWaitChild
    \/ NestFinish
    \/ NestAfterItems
    \/ NestSendStop
    \/ ChildSend
    \/ ChildEnd
    \/ ChildNotify
    \/ ChildClose

SpecNest == InitNest /\ [][NextNest]_vars

\* the nest as the inner side of another join: its parent reopens it once
\* after a run and runs it again
NextNestReopen == NextNest \/ NestReopen

SpecNestReopen == InitNest /\ [][NextNestReopen]_vars

----
(***************************************************************************)
(* SpecStream: one run of Stream over up to MaxStream input items; Result  *)
(* returns false at the call numbered refuseAt (never when it is 0)        *)
(***************************************************************************)
MaxStream == 3

InitStream ==
    /\ streamPlan \in
          [items : {[i \in 1..Len(q) |-> Item(q[i])] :
                       q \in SeqsUpTo(PrimaryKeys, MaxStream)},
           refuseAt : 0..MaxStream]
    /\ stream = NewStream
    /\ IdlePlanning
    /\ IdleScan
    /\ IdleDistinct
    /\ IdleNest
    /\ IdleAudit
    /\ IdleCoveredBy
    /\ IdleServices

\* Stream.RunOnce (lines 46-48): runConsumer up to the loop
StreamRunOnce ==
    /\ stream.pc = "created"
    /\ stream' = [stream EXCEPT !.pc = "getItem", !.input = streamPlan.items]
    /\ UNCHANGED <<streamPlan, varsPlanning, varsScan, varsDistinct, varsNest, varsAudit, varsCoveredBy, varsServices>>

\* runConsumer: the next input item, or the end on a stop or at the end of
\* the input
StreamGetItem ==
    /\ stream.pc = "getItem"
    /\ stream' = IF stream.stopChannel \/ stream.input = <<>>
                 THEN [stream EXCEPT !.pc = "afterItems"]
                 ELSE [stream EXCEPT !.pc = "processItem",
                          !.item = Head(stream.input),
                          !.input = Tail(stream.input),
                          !.received = Append(@, Head(stream.input))]
    /\ UNCHANGED <<streamPlan, varsPlanning, varsScan, varsDistinct, varsNest, varsAudit, varsCoveredBy, varsServices>>

\* runConsumer calls processItem; false ends the loop
StreamProcessItem ==
    /\ stream.pc = "processItem"
    /\ LET r == streamProcessItem(stream.sink, stream.outDocs, stream.item,
                                  Len(stream.received) # streamPlan.refuseAt)
       IN  stream' = [stream EXCEPT
                !.pc = IF r.ok THEN "getItem" ELSE "afterItems",
                !.item = NoItem,
                !.sink = r.sink,
                !.outDocs = r.outDocs]
    /\ UNCHANGED <<streamPlan, varsPlanning, varsScan, varsDistinct, varsNest, varsAudit, varsCoveredBy, varsServices>>

\* runConsumer calls afterItems
StreamAfterItems ==
    /\ stream.pc = "afterItems"
    /\ stream' = [stream EXCEPT !.pc = "close",
                                !.sink = streamAfterItems(stream.sink)]
    /\ UNCHANGED <<streamPlan, varsPlanning, varsScan, varsDistinct, varsNest, varsAudit, varsCoveredBy, varsServices>>

\* runConsumer: the deferred close of the operator
StreamClose ==
    /\ stream.pc = "close"
    /\ stream' = [stream EXCEPT !.pc = "done", !.closed = TRUE]
    /\ UNCHANGED <<streamPlan, varsPlanning, varsScan, varsDistinct, varsNest, varsAudit, varsCoveredBy, varsServices>>

\* a stop is sent to the operator
StreamSendStop ==
    /\ ~stream.stopChannel
    /\ stream.pc \notin {"created", "done"}
    /\ stream' = [stream EXCEPT !.stopChannel = TRUE]
    /\ UNCHANGED <<streamPlan, varsPlanning, varsScan, varsDistinct, varsNest, varsAudit, varsCoveredBy, varsServices>>

NextStream ==
    \/ StreamRunOnce
    \/ StreamGetItem
    \/ StreamProcessItem
    \/ StreamAfterItems
    \/ StreamClose
    \/ StreamSendStop

SpecStream == InitStream /\ [][NextStream]_vars

----
(***************************************************************************)
(* SpecAudit: Submit of one event with up to MaxUsers users to an auditor  *)
(***************************************************************************)
MaxUsers == 2

UserStrings ==
    {<<"bill">>, <<"nina">>, <<"external", ":", "james">>,
     <<"local", ":", "nina">>, <<"external", ":", "nina">>,
     <<"a", ":", "b", ":", "c">>}

Whitelists ==
    {{}, {UserInfo(Str("nina"), Str("local"))},
     {UserInfo(Str("nina"), Str("local")), UserInfo(Str("james"), Str("external")),
      UserInfo(Str("bill"), Str("local"))}}

InitAudit ==
    /\ auditInfo \in [AuditEnabled : BOOLEAN,
                      EventDisabled : {{}, {28678, 28679}},
                      UserWhitelisted : Whitelists]
    /\ auditable \in [eventType : {"SELECT", "UPDATE", "GARBAGE"},
                      eventUsers : SeqsUpTo(UserStrings, MaxUsers)]
    /\ recordedEvents = <<>>
    /\ submitted = FALSE
    /\ IdlePlanning
    /\ IdleScan
    /\ IdleDistinct
    /\ IdleNest
    /\ IdleStream
    /\ IdleCoveredBy
    /\ IdleServices

\* Submit(auditable): each entry built is handed to the auditor, which
\* records it (mockAuditor.submit)
Submit ==
    /\ ~submitted
    /\ recordedEvents' = recordedEvents \o buildAuditEntries(auditable, auditInfo)
    /\ submitted' = TRUE
    /\ UNCHANGED <<auditInfo, auditable, varsPlanning, varsScan, varsDistinct,
                   varsNest, varsStream, varsCoveredBy, varsServices>>

NextAudit == Submit

SpecAudit == InitAudit /\ [][NextAudit]_vars

----
(***************************************************************************)
(* SpecConfig: two request goroutines calling State and the config         *)
(* endpoint, MaxCalls times each, while the cluster reports up to MaxRev   *)
(* revisions of its pool services                                          *)
(***************************************************************************)
MaxCalls == 2
MaxRev == 2

Callers == {"r1", "r2"}

InitConfig ==
    /\ cbStore = NewConfigstore
    /\ cluster \in [rev : {1}, node : NodeReports]
    /\ caller = [p \in Callers |-> NewCaller]
    /\ localConfig = NewLocalConfig
    /\ IdlePlanning
    /\ IdleExecution
    /\ IdleSpans
    /\ IdleAuth

UnchangedByConfig == UNCHANGED <<varsPlanning, varsExecution, varsSpans, varsAuth>>

\* the cluster reports a new revision of its pool services
ClusterChange ==
    /\ cluster.rev < MaxRev
    /\ \E n \in NodeReports \ {cluster.node} :
          cluster' = [rev |-> cluster.rev + 1, node |-> n]
    /\ UNCHANGED <<cbStore, caller, localConfig>>
    /\ UnchangedByConfig

\* a request arrives: State(), or doConfig, which starts with WhoAmI()
CallStart(p) ==
    /\ caller[p].pc = "idle"
    /\ caller[p].calls < MaxCalls
    /\ \E k \in {"State", "Config"} :
          caller' = [caller EXCEPT ![p] = [NewCaller EXCEPT
                        !.pc = "check", !.kind = k, !.calls = caller[p].calls]]
    /\ UNCHANGED <<cbStore, cluster, localConfig>>
    /\ UnchangedByConfig

\* line 712: noMoreChecks is read
CheckNoMoreChecks(p) ==
    /\ caller[p].pc = "check"
    /\ caller' = [caller EXCEPT ![p].pc = IF cbStore.noMoreChecks THEN "fast" ELSE "rlock"]
    /\ UNCHANGED <<cbStore, cluster, localConfig>>
    /\ UnchangedByConfig

\* line 713: whoAmI and state are read and returned
FastReturn(p) ==
    /\ caller[p].pc = "fast"
    /\ caller' = [caller EXCEPT ![p].pc = "named",
                     ![p].ret = [whoAmI |-> cbStore.whoAmI, state |-> cbStore.state]]
    /\ UNCHANGED <<cbStore, cluster, localConfig>>
    /\ UnchangedByConfig

\* line 721: this.RLock()
StoreRLock(p) ==
    /\ caller[p].pc = "rlock"
    /\ cbStore.writer = "none"
    /\ cbStore' = [cbStore EXCEPT !.readers = @ \cup {p}]
    /\ caller' = [caller EXCEPT ![p].pc = "been"]
    /\ UNCHANGED <<cluster, localConfig>>
    /\ UnchangedByConfig

\* lines 724-769, under the read lock: the pool services are fetched and
\* checked, then the read lock is given up
BeenHereBefore(p) ==
    /\ caller[p].pc = "been"
    /\ LET r == checkPoolServices(cluster)
       IN  caller' = [caller EXCEPT
              ![p].snap = IF cbStore.poolName # "" THEN cluster ELSE @,
              ![p].ret = IF cbStore.poolName # "" /\ cluster.rev = cbStore.poolSrvRev
                         THEN [whoAmI |-> cbStore.whoAmI, state |-> cbStore.state]
                         ELSE @,
              ![p].pc = IF cbStore.poolName = "" THEN "lock2"
                        ELSE IF cluster.rev = cbStore.poolSrvRev THEN "named"
                        ELSE IF r.state # NoMode THEN "lock1"
                        ELSE "lock2"]
    /\ cbStore' = [cbStore EXCEPT !.readers = @ \ {p}]
    /\ UNCHANGED <<cluster, localConfig>>
    /\ UnchangedByConfig

\* line 743: this.Lock() after the promotion
StoreLock1(p) ==
    /\ caller[p].pc = "lock1"
    /\ cbStore.writer = "none" /\ cbStore.readers = {}
    /\ cbStore' = [cbStore EXCEPT !.writer = p]
    /\ caller' = [caller EXCEPT ![p].pc = "update"]
    /\ UNCHANGED <<cluster, localConfig>>
    /\ UnchangedByConfig

\* lines 747-759, under the write lock, with the pool services fetched under
\* the read lock
StoreUpdate(p) ==
    /\ caller[p].pc = "update"
    /\ LET updated == UpdateAfterPromotion(cbStore, caller[p].snap)
       IN  /\ cbStore' = [updated EXCEPT !.writer = "none"]
           /\ caller' = [caller EXCEPT ![p].pc = "named",
                  ![p].ret = [whoAmI |-> updated.whoAmI, state |-> updated.state]]
    /\ UNCHANGED <<cluster, localConfig>>
    /\ UnchangedByConfig

\* line 770: this.Lock()
StoreLock2(p) ==
    /\ caller[p].pc = "lock2"
    /\ cbStore.writer = "none" /\ cbStore.readers = {}
    /\ cbStore' = [cbStore EXCEPT !.writer = p]
    /\ caller' = [caller EXCEPT ![p].pc = "slow"]
    /\ UNCHANGED <<cluster, localConfig>>
    /\ UnchangedByConfig

\* lines 773-839, under the write lock
StoreSlowPath(p) ==
    /\ caller[p].pc = "slow"
    /\ LET r == SlowPath(cbStore, cluster)
       IN  /\ cbStore' = [r.store EXCEPT !.writer = "none"]
           /\ caller' = [caller EXCEPT ![p].pc = "named",
                  ![p].ret = [whoAmI |-> r.whoAmI, state |-> r.state]]
    /\ UNCHANGED <<cluster, localConfig>>
    /\ UnchangedByConfig

\* doNameState has returned: State() ends, doConfig goes on with the name
\* (lines 154-157)
NameStateReturned(p) ==
    /\ caller[p].pc = "named"
    /\ caller' = [caller EXCEPT
          ![p].pc = IF caller[p].kind = "State" THEN "idle" ELSE "cfgRead",
          ![p].name = WhoAmIName(caller[p].ret),
          ![p].calls = IF caller[p].kind = "State" THEN @ + 1 ELSE @]
    /\ UNCHANGED <<cbStore, cluster, localConfig>>
    /\ UnchangedByConfig

\* line 158: localConfig.myConfig and localConfig.name are read
ConfigRead(p) ==
    /\ caller[p].pc = "cfgRead"
    /\ caller' = [caller EXCEPT ![p].pc =
          IF localConfig.myConfig # NoNode /\ caller[p].name = localConfig.name
          THEN "cfgHit" ELSE "cfgNodes"]
    /\ UNCHANGED <<cbStore, cluster, localConfig>>
    /\ UnchangedByConfig

\* line 159: localConfig.myConfig is read and returned
ConfigHit(p) ==
    /\ caller[p].pc = "cfgHit"
    /\ caller' = [caller EXCEPT ![p].pc = "idle", ![p].result = localConfig.myConfig,
                                ![p].calls = @ + 1]
    /\ UNCHANGED <<cbStore, cluster, localConfig>>
    /\ UnchangedByConfig

\* lines 162-181: the node of that name is looked up among the query nodes
ConfigNodes(p) ==
    /\ caller[p].pc = "cfgNodes"
    /\ caller' = [caller EXCEPT ![p].pc = "cfgLock",
                                ![p].self = SelfOf(caller[p].name, cluster)]
    /\ UNCHANGED <<cbStore, cluster, localConfig>>
    /\ UnchangedByConfig

\* line 182: localConfig.Lock()
ConfigLock(p) ==
    /\ caller[p].pc = "cfgLock"
    /\ localConfig.owner = "none"
    /\ localConfig' = [localConfig EXCEPT !.owner = p]
    /\ caller' = [caller EXCEPT ![p].pc = "cfgMyConfig"]
    /\ UNCHANGED <<cbStore, cluster>>
    /\ UnchangedByConfig

\* line 184: localConfig.myConfig = self
ConfigSetMyConfig(p) ==
    /\ caller[p].pc = "cfgMyConfig"
    /\ localConfig' = [localConfig EXCEPT !.myConfig = caller[p].self]
    /\ caller' = [caller EXCEPT ![p].pc = "cfgName"]
    /\ UNCHANGED <<cbStore, cluster>>
    /\ UnchangedByConfig

\* lines 185-186: localConfig.name = name, the return and the deferred
\* Unlock
ConfigSetName(p) ==
    /\ caller[p].pc = "cfgName"
    /\ localConfig' = [localConfig EXCEPT !.name = caller[p].name, !.owner = "none"]
    /\ caller' = [caller EXCEPT ![p].pc = "idle", ![p].result = localConfig.myConfig,
                                ![p].calls = @ + 1]
    /\ UNCHANGED <<cbStore, cluster>>
    /\ UnchangedByConfig

NextConfig ==
    \/ ClusterChange
    \/ \E p \in Callers :
          \/ CallStart(p)
          \/ CheckNoMoreChecks(p)
          \/ FastReturn(p)
          \/ StoreRLock(p)
          \/ BeenHereBefore(p)
          \/ StoreLock1(p)
          \/ StoreUpdate(p)
          \/ StoreLock2(p)
          \/ StoreSlowPath(p)
          \/ NameStateReturned(p)
          \/ ConfigRead(p)
          \/ ConfigHit(p)
          \/ ConfigNodes(p)
          \/ ConfigLock(p)
          \/ ConfigSetMyConfig(p)
          \/ ConfigSetName(p)

SpecConfig == InitConfig /\ [][NextConfig]_vars

----
(***************************************************************************)
(* SpecSpans: evalSpan2 on up to MaxSpans spans of up to MaxRanges ranges  *)
(***************************************************************************)
MaxSpans == 2
MaxRanges == 2

Ranges2 == SeqsUpTo([Low : EvalOutcome, High : EvalOutcome], MaxRanges)
Spans2 == SeqsUpTo([Seek : EvalOutcome, Ranges : Ranges2], MaxSpans)

InitSpans ==
    /\ spanInput \in Spans2
    /\ spanResult = NoSpanResult
    /\ IdlePlanning
    /\ IdleExecution
    /\ IdleConfig
    /\ IdleAuth

\* dspans, empty, err := evalSpan2(plan.Spans(), outer_values, context)
EvalSpan2 ==
    /\ ~spanResult.done
    /\ spanResult' = evalSpan2(spanInput)
    /\ UNCHANGED <<spanInput, varsPlanning, varsExecution, varsConfig, varsAuth>>

NextSpans == EvalSpan2

SpecSpans == InitSpans /\ [][NextSpans]_vars

----
(***************************************************************************)
(* SpecAuth: Authorize on up to MaxCredentials credentials and up to       *)
(* MaxPrivileges privileges                                                *)
(***************************************************************************)
MaxCredentials == 2
MaxPrivileges == 2

InitAuth ==
    /\ authRequest \in
         [credentials : {c \in SUBSET Credentials : Cardinality(c) <= MaxCredentials},
          privileges : SeqsUpTo(Privileges, MaxPrivileges)]
    /\ authResult = "none"
    /\ IdlePlanning
    /\ IdleExecution
    /\ IdleConfig
    /\ IdleSpans

\* a call of Authorize; the order in which the map of credentials is ranged
\* over is not fixed
Authorize ==
    /\ authResult = "none"
    /\ \/ /\ authRequest.credentials = {}
          /\ authResult' = AuthorizeFrom("bad", {}, authRequest.privileges)
       \/ \E first \in authRequest.credentials :
             authResult' = AuthorizeFrom(first, authRequest.credentials,
                                         authRequest.privileges)
    /\ UNCHANGED <<authRequest, varsPlanning, varsExecution, varsConfig, varsSpans>>

NextAuth == Authorize

SpecAuth == InitAuth /\ [][NextAuth]_vars

----
(***************************************************************************)
(* SpecCoveredBy: CoveredBy on every node of up to MaxCoveredChildren      *)
(* children, under every setting of the options                           *)
(***************************************************************************)
MaxCoveredChildren == 2

CoveredChildren == [plain : Covered, afterSkip : Covered]

InitCoveredBy ==
    /\ coveredNode \in
         [equivalent : BOOLEAN,
          children : SeqsUpTo(CoveredChildren, MaxCoveredChildren),
          options : [isSingle : {FALSE}, skip : BOOLEAN, trickleEquiv : BOOLEAN]]
    /\ coveredRun = NoCoveredRun
    /\ IdlePlanning
    /\ IdleScan
    /\ IdleDistinct
    /\ IdleNest
    /\ IdleStream
    /\ IdleAudit
    /\ IdleServices

\* this.CoveredBy(keyspace, exprs, options)
CoveredBy ==
    /\ ~coveredRun.done
    /\ LET r == ExprCoveredBy(coveredNode, coveredNode.options)
       IN  coveredRun' = [done |-> TRUE, ret |-> r.ret, calls |-> r.calls]
    /\ UNCHANGED <<coveredNode, varsPlanning, varsScan, varsDistinct, varsNest,
                   varsStream, varsAudit, varsServices>>

NextCoveredBy == CoveredBy

SpecCoveredBy == InitCoveredBy /\ [][NextCoveredBy]_vars

----
(***************************************************************************)
(* Claims                                                                  *)
(***************************************************************************)

\* C1: Or.Apply returns TRUE if some argument is neither NULL nor MISSING and
\* is true; otherwise NULL if some argument is NULL; otherwise MISSING if
\* some argument is MISSING; otherwise FALSE.
C1_OrPriority ==
    orResult # NoValue =>
        LET anyTrue == \E i \in 1..Len(args) :
                           args[i].type \notin {"NULL", "MISSING"} /\ Truth(args[i])
            anyNull == \E i \in 1..Len(args) : args[i] = NULL_VALUE
            anyMissing == \E i \in 1..Len(args) : args[i] = MISSING_VALUE
        IN  orResult = IF anyTrue THEN TRUE_VALUE
                       ELSE IF anyNull THEN NULL_VALUE
                       ELSE IF anyMissing THEN MISSING_VALUE
                       ELSE FALSE_VALUE

\* a true operand after a NULL and a MISSING operand: the result is TRUE
C1_Witness ==
    /\ orResult = TRUE_VALUE
    /\ Len(args) = 3
    /\ args[1] = NULL_VALUE
    /\ args[2] = MISSING_VALUE
    /\ args[3] = Number(2)

\* the pairs of the first operand's covers that every other operand's covers
\* hold too, with a value that Equals finds equal
AgreedCovers ==
    LET first == operandCovers[1]
        agreed == {s \in DOMAIN first :
                      \A i \in 2..Len(operandCovers) :
                          /\ s \in DOMAIN operandCovers[i]
                          /\ Truth(Equals(first[s], operandCovers[i][s]))}
    IN  [s \in agreed |-> first[s]]

\* C2: Or.FilterCovers adds to the caller's cover map exactly the pairs that
\* occur in the covers of every disjunct with equal values (equal as decided
\* by Value.Equals, so a NULL cover never agrees), and adds nothing if some
\* disjunct has no covers at all.
C2_OrCoversIntersect ==
    coversDone =>
        IF \E i \in 1..Len(operandCovers) : DOMAIN operandCovers[i] = {}
        THEN covers = coversIn
        ELSE covers = PutAll(coversIn, AgreedCovers)

\* OR(x = 1 AND y = 2, x = 1 AND y = 1): x -> 1 survives, y does not and the
\* caller's own y is kept
C2_Witness ==
    /\ coversDone
    /\ Len(operandCovers) = 2
    /\ operandCovers[1] = [s \in {"x", "y"} |-> IF s = "x" THEN Number(1) ELSE Number(2)]
    /\ operandCovers[2] = [s \in {"x", "y"} |-> Number(1)]
    /\ coversIn = [s \in {"y"} |-> Number(2)]
    /\ covers = [s \in {"x", "y"} |-> IF s = "x" THEN Number(1) ELSE Number(2)]

AllChildrenConstant == \A i \in 1..Len(node.children) : node.children[i].value # NoValue
SomeChildIs(val) == \E i \in 1..Len(node.children) : node.children[i].value = val

----
(***************************************************************************)
(* What the classifier is expected to produce, stated on the predicate     *)
(* alone (no classifier state)                                             *)
(***************************************************************************)
\* the conjuncts of a predicate: its operands after flattening AND
RECURSIVE FlatConjuncts(_)
RECURSIVE FlatConjunctsOf(_, _)
FlatConjunctsOf(ops, i) ==
    IF i > Len(ops) THEN <<>>
    ELSE FlatConjuncts(ops[i]) \o FlatConjunctsOf(ops, i + 1)
FlatConjuncts(e) == IF e.k = "and" THEN FlatConjunctsOf(e.ops, 1) ELSE <<e>>

ConstantTrue(e) == PredValue(e) = TRUE_VALUE
MentionedKeyspaces(e) == CountKeySpaces(e, Keyspaces)

\* the normalized terms of a predicate, in order: every conjunct that is not
\* constant true and mentions a keyspace is normalized, and a conjunct whose
\* normalization is an AND is replaced by the terms of that AND. Each term
\* comes with the keyspaces it mentions.
RECURSIVE NormalTerms(_)
RECURSIVE NormalTermsOf(_, _)
NormalTermsOf(ops, i) ==
    IF i > Len(ops) THEN <<>>
    ELSE NormalTerms(ops[i]) \o NormalTermsOf(ops, i + 1)
NormalTerms(e) ==
    IF e.k = "and" THEN NormalTermsOf(e.ops, 1)
    ELSE IF ConstantTrue(e) \/ MentionedKeyspaces(e) = {} THEN <<>>
    ELSE IF DNFMap(e).k = "and" THEN NormalTermsOf(DNFMap(e).ops, 1)
    ELSE <<[term |-> DNFMap(e), ks |-> MentionedKeyspaces(e)]>>

\* the keyspaces of a term that a filter is attached to: on the ON-clause
\* path the keyspaces whose plan is done are dropped
Remaining(ks, onclause, done) == IF onclause THEN ks \ done ELSE ks

RECURSIVE AndOf(_)
AndOf(terms) ==
    IF Len(terms) = 1 THEN terms[1]
    ELSE NewAnd(AndOf(SubSeq(terms, 1, Len(terms) - 1)), terms[Len(terms)])

\* ExpectedFilters(e, k, ...): the fltrExpr of the filters that classifying e
\* on its own gives keyspace k, in order. ExpectedExtract(or, k, ...): the OR
\* extracted for k from a join OR term, NilExpr if there is none.
RECURSIVE ExpectedFilters(_, _, _, _)
RECURSIVE ExpectedFiltersOf(_, _, _, _, _)
RECURSIVE ExpectedExtract(_, _, _, _)
ExpectedExtract(or, k, onclause, done) ==
    LET disjuncts == FlattenOps("or", or.ops)
        own == [i \in 1..Len(disjuncts) |-> ExpectedFilters(disjuncts[i], k, onclause, done)]
    IN  IF \E i \in 1..Len(disjuncts) : ConstantTrue(disjuncts[i]) \/ own[i] = <<>>
        THEN NilExpr
        ELSE Or([i \in 1..Len(disjuncts) |-> AndOf(own[i])])

ExpectedFiltersOf(terms, i, k, onclause, done) ==
    IF i > Len(terms) THEN <<>>
    ELSE LET t == terms[i]
             rem == Remaining(t.ks, onclause, done)
             x == IF k \in rem /\ Cardinality(rem) > 1 /\ t.term.k = "or"
                  THEN ExpectedExtract(t.term, k, onclause, done)
                  ELSE NilExpr
         IN  (IF rem = {k} THEN <<t.term>>
              ELSE IF x # NilExpr THEN <<x>>
              ELSE <<>>)
             \o ExpectedFiltersOf(terms, i + 1, k, onclause, done)

ExpectedFilters(e, k, onclause, done) ==
    ExpectedFiltersOf(NormalTerms(e), 1, k, onclause, done)

\* the join terms that mention k, in order
IsJoinTermOf(t, k, onclause, done) ==
    LET rem == Remaining(t.ks, onclause, done)
    IN  k \in rem /\ Cardinality(rem) > 1

RECURSIVE ExpectedJoinFiltersOf(_, _, _, _, _)
ExpectedJoinFiltersOf(terms, i, k, onclause, done) ==
    IF i > Len(terms) THEN <<>>
    ELSE (IF IsJoinTermOf(terms[i], k, onclause, done) THEN <<terms[i].term>> ELSE <<>>)
         \o ExpectedJoinFiltersOf(terms, i + 1, k, onclause, done)

PlanDone == {k \in Keyspaces : baseKeyspaces[k].planDone}
FltrExprs(filters) == [i \in 1..Len(filters) |-> filters[i].fltrExpr]
Count(seq, x) == Cardinality({i \in 1..Len(seq) : seq[i] = x})

RECURSIVE SumFilters(_)
SumFilters(ks) ==
    IF ks = {} THEN 0
    ELSE LET k == CHOOSE x \in ks : TRUE
         IN  Len(baseKeyspaces[k].filters) + SumFilters(ks \ {k})

\* C4 as stated: for a WHERE predicate, each conjunct that mentions exactly
\* one keyspace is in that keyspace's filters (term by term when it was
\* rewritten to an AND) and in no joinfilters, and each conjunct that
\* mentions n > 1 keyspaces is exactly once in the joinfilters of each of
\* them and of no other keyspace.
C4_Original ==
    (classified /\ ~isOnclause) =>
        LET cs == FlatConjuncts(pred)
        IN  \A i \in 1..Len(cs) :
                LET c == cs[i]
                    ks == MentionedKeyspaces(c)
                    same == Cardinality({j \in 1..Len(cs) : DNFMap(cs[j]) = DNFMap(c)})
                IN  ~ConstantTrue(c) =>
                      /\ Cardinality(ks) = 1 =>
                            \A n \in 1..Len(NormalTerms(c)) :
                               LET t == NormalTerms(c)[n].term
                               IN  /\ \A k \in ks :
                                        Count(FltrExprs(baseKeyspaces[k].filters), t) >= 1
                                   /\ \A k \in Keyspaces :
                                        Count(FltrExprs(baseKeyspaces[k].joinfilters), t) = 0
                      /\ Cardinality(ks) > 1 =>
                            \A k \in Keyspaces :
                                 Count(FltrExprs(baseKeyspaces[k].joinfilters), DNFMap(c))
                                    = IF k \in ks THEN same ELSE 0

\* C4 (amended): for a WHERE predicate, take the normalized terms (a conjunct
\* whose normalization is an AND counts term by term). The joinfilters of
\* keyspace k are exactly the terms that mention k and another keyspace, each
\* once and in order, marked isJoin; a term that mentions only k is in the
\* filters of k, marked not isJoin, and in no joinfilters.
C4_Classify ==
    (classified /\ ~isOnclause) =>
        LET terms == NormalTerms(pred)
        IN  /\ \A k \in Keyspaces :
                 /\ FltrExprs(baseKeyspaces[k].joinfilters)
                        = ExpectedJoinFiltersOf(terms, 1, k, FALSE, {})
                 /\ \A i \in 1..Len(baseKeyspaces[k].joinfilters) :
                        LET f == baseKeyspaces[k].joinfilters[i]
                        IN  f.isJoin /\ k \in f.keyspaces /\ Cardinality(f.keyspaces) > 1
            /\ \A i \in 1..Len(terms) :
                 \A k \in Keyspaces :
                    terms[i].ks = {k} =>
                       \E j \in 1..Len(baseKeyspaces[k].filters) :
                          LET f == baseKeyspaces[k].filters[j]
                          IN  /\ f.fltrExpr = terms[i].term
                              /\ f.keyspaces = {k}
                              /\ ~f.isJoin
                              /\ Count(FltrExprs(baseKeyspaces[k].filters), terms[i].term)
                                    >= Cardinality({n \in 1..Len(terms) : terms[n] = terms[i]})

\* WHERE a1 AND j AND NOT (a2 OR b1)-like: a single-keyspace conjunct and a
\* join conjunct have been classified
C4_Witness ==
    /\ classified /\ ~isOnclause
    /\ pred = And(<<And(<<A2, J>>), Not(Or(<<A1, B1>>))>>)
    /\ Len(baseKeyspaces["a"].filters) = 2
    /\ Len(baseKeyspaces["a"].joinfilters) = 1
    /\ Len(baseKeyspaces["b"].joinfilters) = 1
    /\ Len(baseKeyspaces["b"].filters) = 1

\* C5 as stated: the filters of all keyspaces together are as many as the
\* flattened conjuncts of the predicate that are not constant true.
C5_Original ==
    classified =>
        SumFilters(Keyspaces)
           = Cardinality({i \in 1..Len(FlatConjuncts(pred)) :
                             ~ConstantTrue(FlatConjuncts(pred)[i])})

RECURSIVE SumExpected(_)
SumExpected(ks) ==
    IF ks = {} THEN 0
    ELSE LET k == CHOOSE x \in ks : TRUE
             terms == NormalTerms(pred)
             single == {i \in 1..Len(terms) : Remaining(terms[i].ks, isOnclause, PlanDone) = {k}}
             extracted == {i \in 1..Len(terms) :
                             /\ IsJoinTermOf(terms[i], k, isOnclause, PlanDone)
                             /\ terms[i].term.k = "or"
                             /\ ExpectedExtract(terms[i].term, k, isOnclause, PlanDone) # NilExpr}
         IN  Cardinality(single) + Cardinality(extracted) + SumExpected(ks \ {k})

\* C5 (amended): the filters of all keyspaces together are as many as the
\* normalized terms that are attached to exactly one keyspace, plus one for
\* each join OR term and keyspace for which an OR could be extracted.
C5_FilterCount ==
    classified => SumFilters(Keyspaces) = SumExpected(Keyspaces)

\* a join conjunct next to a single-keyspace conjunct: one filter for two
\* conjuncts
C5_Witness ==
    /\ classified /\ ~isOnclause
    /\ pred = And(<<A1, J>>)
    /\ SumFilters(Keyspaces) = 1

\* C6 as stated: an OR conjunct that mentions more than one keyspace gives
\* keyspace k one more filter, the extracted OR, if and only if every
\* disjunct classified on its own yields a filter for k; nothing else is
\* added to the filters of k.
C6_Original ==
    classified =>
        \A k \in Keyspaces :
            (/\ pred.k = "or"
             /\ DNFMap(pred).k = "or"
             /\ k \in MentionedKeyspaces(pred)
             /\ Cardinality(MentionedKeyspaces(pred)) > 1)
            => LET x == ExpectedExtract(DNFMap(pred), k, isOnclause, PlanDone)
               IN  IF x = NilExpr
                   THEN \A i \in 1..Len(baseKeyspaces[k].filters) :
                           baseKeyspaces[k].filters[i].fltrExpr = DNFMap(pred)
                   ELSE FltrExprs(baseKeyspaces[k].filters) = <<x>>

\* C6 (amended): the filters of keyspace k are, in order, the terms attached
\* to k alone and, for each OR term that is attached to k and to another
\* keyspace (after the keyspaces whose plan is done have been dropped on the
\* ON-clause path), the extracted OR if and only if every disjunct classified
\* on its own yields a filter for k; the extracted OR has one disjunct per
\* disjunct of the term, the AND of that disjunct's filters for k, and is
\* attached to k alone. Nothing else is added to the table.
C6_ExtractOr ==
    classified =>
        \A k \in Keyspaces :
            /\ FltrExprs(baseKeyspaces[k].filters)
                   = ExpectedFilters(pred, k, isOnclause, PlanDone)
            /\ FltrExprs(baseKeyspaces[k].joinfilters)
                   = ExpectedJoinFiltersOf(NormalTerms(pred), 1, k, isOnclause, PlanDone)
            /\ \A i \in 1..Len(baseKeyspaces[k].filters) :
                   baseKeyspaces[k].filters[i].keyspaces = {k}

\* (a1 AND a2) OR (a1 AND j): keyspace a gets the OR of (a1 AND a2) and a1,
\* keyspace b gets nothing
C6_Witness ==
    /\ classified /\ ~isOnclause
    /\ pred = Or(<<And(<<A1, A2>>), And(<<A1, J>>)>>)
    /\ FltrExprs(baseKeyspaces["a"].filters) = <<Or(<<And(<<A1, A2>>), A1>>)>>
    /\ baseKeyspaces["b"].filters = <<>>
    /\ Len(baseKeyspaces["b"].joinfilters) = 1

AllFilters ==
    UNION {{baseKeyspaces[k].filters[i] : i \in 1..Len(baseKeyspaces[k].filters)}
           \cup {baseKeyspaces[k].joinfilters[i] : i \in 1..Len(baseKeyspaces[k].joinfilters)}
           : k \in Keyspaces}

\* the OR filters extracted from the join OR terms of the predicate
ExtractedFilters ==
    {ExpectedExtract(NormalTerms(pred)[i].term, k, isOnclause, PlanDone) :
        i \in {n \in 1..Len(NormalTerms(pred)) : NormalTerms(pred)[n].term.k = "or"},
        k \in Keyspaces}

\* C7: every filter record carries a non-nil origExpr, and that origExpr is
\* the conjunct of the input predicate, before normalization, from which the
\* filter was derived (an extracted OR filter aside, whose origExpr is built
\* from the disjuncts).
C7_OrigExpr ==
    classified =>
        \A f \in AllFilters :
            /\ f.origExpr # NilExpr
            /\ \/ f.fltrExpr \in ExtractedFilters
               \/ \E i \in 1..Len(FlatConjuncts(pred)) :
                     /\ f.origExpr = FlatConjuncts(pred)[i]
                     /\ \E n \in 1..Len(NormalTerms(f.origExpr)) :
                           NormalTerms(f.origExpr)[n].term = f.fltrExpr

----
(***************************************************************************)
(* Plans                                                                   *)
(***************************************************************************)
RECURSIVE PipelineOf(_), PipelineOfAll(_, _)
\* the operators of a plan in pipeline order: a Sequence runs its children
\* in order, a Parallel runs its child
PipelineOf(op) ==
    IF op.op \in {"Sequence", "Parallel"} THEN PipelineOfAll(op.children, 1)
    ELSE <<op.op>>
PipelineOfAll(ops, i) ==
    IF i > Len(ops) THEN <<>>
    ELSE PipelineOf(ops[i]) \o PipelineOfAll(ops, i + 1)

RECURSIVE AllOps(_)
\* every operator of a plan
AllOps(op) ==
    {op} \cup UNION {AllOps(op.children[i]) : i \in 1..Len(op.children)}

RECURSIVE NodeIds(_)
\* the ids of the algebra nodes of a subresult
NodeIds(n) ==
    IF n.kind \in {"union", "unionAll"}
    THEN {n.id} \cup NodeIds(n.first) \cup NodeIds(n.second)
    ELSE {n.id}

RECURSIVE ContainsInOrder(_, _)
\* pat is a subsequence of s
ContainsInOrder(pat, s) ==
    IF pat = <<>> THEN TRUE
    ELSE IF s = <<>> THEN FALSE
    ELSE IF Head(pat) = Head(s) THEN ContainsInOrder(Tail(pat), Tail(s))
    ELSE ContainsInOrder(pat, Tail(s))

Names(ops) == [i \in 1..Len(ops) |-> ops[i].op]

\* the plan of the statement's subresult within the plan of the statement
SubPlan ==
    IF ~stmt.order /\ ~stmt.offset /\ ~stmt.limit THEN plan ELSE plan.children[1]

\* C8 (the spec's statement, violated by the code): the plan of a DISTINCT
\* subselect has a FinalProject after the InitialProject inside its Parallel
\* stage, and a Distinct operator after that Parallel stage.
C8_DistinctAfterParallel ==
    (built = "ok" /\ stmt.subresult.kind = "subselect" /\ stmt.subresult.distinct)
    => /\ SubPlan.op = "Sequence"
       /\ \E i, j \in 1..Len(SubPlan.children) :
            /\ i < j
            /\ SubPlan.children[i].op = "Parallel"
            /\ ContainsInOrder(<<"InitialProject", "FinalProject">>,
                               PipelineOf(SubPlan.children[i]))
            /\ SubPlan.children[j].op = "Distinct"

\* the case of C9: a SELECT from one keyspace with a WHERE clause, neither
\* ORDER BY nor DISTINCT
SimpleSelect ==
    /\ stmt.kind = "select"
    /\ stmt.subresult.kind = "subselect"
    /\ stmt.subresult.from.kind = "keyspace"
    /\ stmt.subresult.where
    /\ ~stmt.subresult.distinct
    /\ ~stmt.order

ScanName == IF stmt.subresult.from.keys THEN "KeyScan" ELSE "PrimaryScan"

\* C9 as the spec states it: the plan holds, in pipeline order, a scan,
\* Fetch, Filter, InitialProject, FinalProject and Stream.
C9_Original ==
    (built = "ok" /\ SimpleSelect)
    => \E scan \in {"PrimaryScan", "IndexScan", "KeyScan"} :
         ContainsInOrder(<<scan, "Fetch", "Filter", "InitialProject",
                           "FinalProject", "Stream">>, PipelineOf(plan))

\* C9: the plan of a single-keyspace SELECT with a WHERE clause and neither
\* ORDER BY nor DISTINCT holds, in pipeline order, PrimaryScan (KeyScan when
\* the term has keys), Fetch, Filter and InitialProject; it holds neither a
\* FinalProject nor a Stream.
C9_SelectPipeline ==
    (built = "ok" /\ SimpleSelect)
    => /\ ContainsInOrder(<<ScanName, "Fetch", "Filter", "InitialProject">>,
                          PipelineOf(plan))
       /\ \A i \in 1..Len(PipelineOf(plan)) :
            PipelineOf(plan)[i] \notin {"FinalProject", "Stream"}

C9_Witness ==
    /\ built = "ok"
    /\ SimpleSelect
    /\ stmt.limit
    /\ PipelineOf(plan) = <<"PrimaryScan", "Fetch", "Filter", "InitialProject", "Limit">>

\* the two operands' plans inside the plan of a UNION / UNION ALL
UnionAllOp == IF stmt.subresult.kind = "union" THEN SubPlan.children[1] ELSE SubPlan

OwnOperators(operand, operandPlan) ==
    \A o \in AllOps(operandPlan) : o.from \in NodeIds(operand)

\* C10: UNION builds Sequence(UnionAll(first, second), Distinct), UNION ALL
\* builds UnionAll(first, second), and the plan of each operand holds only
\* operators created while that operand was visited.
C10_Union ==
    (built = "ok" /\ stmt.subresult.kind \in {"union", "unionAll"})
    => /\ stmt.subresult.kind = "union"
            => /\ SubPlan.op = "Sequence"
               /\ Names(SubPlan.children) = <<"UnionAll", "Distinct">>
       /\ UnionAllOp.op = "UnionAll"
       /\ Len(UnionAllOp.children) = 2
       /\ OwnOperators(stmt.subresult.first, UnionAllOp.children[1])
       /\ OwnOperators(stmt.subresult.second, UnionAllOp.children[2])
       /\ PipelineOf(UnionAllOp.children[1])
            = PipelineOf(BuildOf(stmt.subresult.first).plan)
       /\ PipelineOf(UnionAllOp.children[2])
            = PipelineOf(BuildOf(stmt.subresult.second).plan)

C10_Witness ==
    /\ built = "ok"
    /\ stmt.subresult.kind = "union"
    /\ stmt.subresult.first.kind = "subselect"
    /\ stmt.subresult.second.kind = "subselect"
    /\ stmt.subresult.first.from.kind = "keyspace"
    /\ stmt.subresult.second.from.kind = "keyspace"
    /\ Names(plan.children) = <<"UnionAll", "Distinct">>
    /\ PipelineOf(plan.children[1].children[2]) = <<"PrimaryScan", "Fetch", "InitialProject">>

----
(***************************************************************************)
(* Scans                                                                   *)
(***************************************************************************)
\* the entries the index sends on the connection over a whole run
Produced == IF scanPlan.spans = "ok" THEN scanPlan.entries ELSE <<>>

Ids(items) == [i \in 1..Len(items) |-> items[i].id]
Keys(entries) == [i \in 1..Len(entries) |-> entries[i].PrimaryKey]

\* C11: with no stop and no error, IndexScan2 sends downstream one item per
\* entry received, in the order received, each with meta.id equal to the
\* primary key of its entry, and it leaves its loop only once the entry
\* channel is closed and drained, having emitted every key the index
\* produced.
C11_ScanEmitsEntries ==
    (~indexScan.stopChannel /\ scanPlan.spans # "error")
    => /\ Len(indexScan.output) <= Len(Produced)
       /\ Ids(indexScan.output) = SubSeq(Keys(Produced), 1, Len(indexScan.output))
       /\ indexScan.pc \in {"defers", "done"}
            => /\ conn.closed
               /\ conn.entries = <<>>
               /\ Ids(indexScan.output) = Keys(Produced)

C11_Witness ==
    /\ indexScan.pc = "done"
    /\ ~indexScan.stopChannel
    /\ ~scanPlan.covering
    /\ Ids(indexScan.output) = <<"k1", "k2", "k1">>

\* C16: when the output of IndexScan2 is closed, the stop channel of the index
\* connection has already been notified, whatever ended the run.
C16_ConnStopBeforeClose ==
    indexScan.closed => conn.stopped

C16_Witness ==
    /\ indexScan.closed
    /\ conn.stopped
    /\ indexScan.stopChannel
    /\ Len(indexScan.output) = 1
    /\ producer.rest # <<>>

RECURSIVE Dedup(_, _)
\* the ids of the items, each at its first occurrence only
Dedup(items, seen) ==
    IF items = <<>> THEN <<>>
    ELSE IF Head(items).id \in seen THEN Dedup(Tail(items), seen)
    ELSE <<Head(items).id>> \o Dedup(Tail(items), seen \cup {Head(items).id})

\* C12: over one run of DistinctScan no two items sent downstream have the
\* same meta.id, and a repeated key does not end the scan: a run that meets
\* no stop, no limit and no invalid item sends every distinct key once, in
\* the order of first arrival.
C12_DistinctKeys ==
    /\ \A i, j \in 1..Len(distinctScan.output) :
          distinctScan.output[i].id = distinctScan.output[j].id => i = j
    /\ (/\ distinctScan.pc \in {"defers", "done"}
        /\ ~distinctScan.stopChannel
        /\ distinctPlan.limit = NoLimit
        /\ \A i \in 1..Len(distinctPlan.items) : distinctPlan.items[i].id # "bad")
       => Ids(distinctScan.output) = Dedup(distinctPlan.items, {})

C12_Witness ==
    /\ distinctScan.pc = "done"
    /\ ~distinctScan.stopChannel
    /\ Ids(distinctPlan.items) = <<"k1", "k1", "k2">>
    /\ Ids(distinctScan.output) = <<"k1", "k2">>

----
(***************************************************************************)
(* Nest                                                                    *)
(***************************************************************************)
RECURSIVE MatchedValues(_)
\* the values at alias of the inner items that satisfy the ON clause, in
\* arrival order
MatchedValues(items) ==
    IF items = <<>> THEN <<>>
    ELSE IF Head(items).on = "true"
    THEN <<Head(items).val>> \o MatchedValues(Tail(items))
    ELSE MatchedValues(Tail(items))

\* what the nest is to emit for an outer item given the inner items
ExpectedNest(id, items) ==
    IF MatchedValues(items) # <<>>
    THEN <<[id |-> id, set |-> TRUE, array |-> MatchedValues(items)]>>
    ELSE IF nestPlan.outer THEN <<[id |-> id, set |-> TRUE, array |-> <<>>]>>
    ELSE <<>>

\* C14: for each outer item whose inner run completes without stop or error
\* (processItem returns true), NLNest emits at most one output: the outer
\* item with the array of the matched inner values, in arrival order, at
\* alias; with no match, the outer item with an empty array when the nest is
\* OUTER and nothing otherwise. Nothing is emitted elsewhere.
C14_NestOutput ==
    [][IF nest.pc = "finish" /\ nest'.pc = "getItem"
       THEN /\ Len(ExpectedNest(nest.item.id, nest.stream)) <= 1
            /\ nest'.output = nest.output \o ExpectedNest(nest.item.id, nest.stream)
       ELSE nest'.output = nest.output]_vars

C14_Witness ==
    /\ nest.pc = "done"
    /\ ~nest.stopChannel
    /\ nestPlan.outer
    /\ nestPlan.onclause = "none"
    /\ nestChild.reopens = 1
    /\ nest.stream = <<RightItem("r1", "false")>>
    /\ nest.output = <<[id |-> "o1", set |-> TRUE, array |-> <<"r2", "r1">>],
                       [id |-> "o2", set |-> TRUE, array |-> <<>>]>>

----
(***************************************************************************)
(* Stream                                                                  *)
(***************************************************************************)
\* the calls of Result made so far, and the calls of CloseResults
ResultCalls == SelectSeq(stream.sink, LAMBDA c : c.call = "Result")
CloseCalls  == SelectSeq(stream.sink, LAMBDA c : c.call = "CloseResults")

\* the input items Stream has been given and has finished processing
Processed ==
    IF stream.pc = "processItem"
    THEN SubSeq(stream.received, 1, Len(stream.received) - 1)
    ELSE stream.received

\* C15: Stream forwards every item it is given to context.Result, in input
\* order; it forwards none after the first call for which Result returned
\* false; it calls CloseResults once, after the last forwarded item, when the
\* stream ends.
C15_StreamForwards ==
    /\ [i \in 1..Len(ResultCalls) |-> ResultCalls[i].id] = Ids(Processed)
    /\ Ids(stream.received)
         = SubSeq(Ids(streamPlan.items), 1, Len(stream.received))
    /\ streamPlan.refuseAt > 0 => Len(ResultCalls) <= streamPlan.refuseAt
    /\ Len(CloseCalls) <= 1
    /\ Len(CloseCalls) = 1
         => /\ stream.sink[Len(stream.sink)] = CloseResultsCall
            /\ stream.pc \in {"close", "done"}
    /\ stream.pc \in {"close", "done"} => Len(CloseCalls) = 1
    /\ (stream.pc = "done" /\ ~stream.stopChannel /\ streamPlan.refuseAt = 0)
         => Len(ResultCalls) = Len(streamPlan.items)

C15_Witness ==
    /\ stream.pc = "done"
    /\ ~stream.stopChannel
    /\ streamPlan.refuseAt = 2
    /\ Len(streamPlan.items) = 3
    /\ stream.sink = <<ResultCall(Item("k1")), ResultCall(Item("k2")),
                       CloseResultsCall>>

----
(***************************************************************************)
(* Audit                                                                   *)
(***************************************************************************)
\* the event is enabled: auditing is on and the event's id is not disabled
EventEnabled ==
    auditInfo.AuditEnabled /\ eventIdOf(auditable.eventType) \notin auditInfo.EventDisabled

\* the source and the name a user of EventUsers is recorded with
HasDomain(user) == \E i \in 1..Len(user) : user[i] = ":"
FirstColon(user) == CHOOSE i \in 1..Len(user) :
                       user[i] = ":" /\ \A j \in 1..(i - 1) : user[j] # ":"
SourceOf(user) == IF HasDomain(user) THEN SubSeq(user, 1, FirstColon(user) - 1)
                  ELSE <<"local">>
NameOf(user) == IF HasDomain(user) THEN SubSeq(user, FirstColon(user) + 1, Len(user))
                ELSE user
Whitelisted(user) ==
    [Name |-> NameOf(user), Domain |-> SourceOf(user)] \in auditInfo.UserWhitelisted

\* the users of the event that are to be recorded
Listed == SelectSeq(auditable.eventUsers, LAMBDA u : ~Whitelisted(u))

\* C17: for an enabled event Submit records one entry per user of EventUsers
\* that is not whitelisted, in the order of EventUsers, "domain:name" with
\* that source and name and a bare name with source local; one entry with an
\* empty user id when EventUsers is empty; none when every user is
\* whitelisted.
C17_AuditUsers ==
    (submitted /\ EventEnabled)
    => IF auditable.eventUsers = <<>>
       THEN /\ Len(recordedEvents) = 1
            /\ recordedEvents[1].RealUserid = [Source |-> <<>>, Username |-> <<>>]
       ELSE /\ Len(recordedEvents) = Len(Listed)
            /\ \A i \in 1..Len(Listed) :
                  recordedEvents[i].RealUserid
                    = [Source |-> SourceOf(Listed[i]), Username |-> NameOf(Listed[i])]

C17_Witness ==
    /\ submitted
    /\ EventEnabled
    /\ auditable.eventUsers = <<<<"nina">>, <<"external", ":", "nina">>>>
    /\ UserInfo(Str("nina"), Str("local")) \in auditInfo.UserWhitelisted
    /\ Len(recordedEvents) = 1
    /\ recordedEvents[1].RealUserid
         = [Source |-> <<"external">>, Username |-> <<"nina">>]

----
(***************************************************************************)
(* Value() and a failing Evaluate                                          *)
(***************************************************************************)
\* Evaluate was called since the last ResetValue and failed
EvaluateFailed == evaluations > 0 /\ node.eval \in {EvalError, EvalPanic}

\* C18: when Evaluate returns an error or panics while a non-volatile
\* expression is folded, Value() returns nil, neither the error nor the
\* panic reaches the caller, and until ResetValue every later call returns
\* nil without evaluating again.
C18_FailedFoldIsNil ==
    /\ [](EvaluateFailed =>
            /\ ~node.volatile
            /\ valueRet = NoValue
            /\ value = NoValue
            /\ evaluations = 1)
    /\ [][(EvaluateFailed /\ value' # Unset) =>
            /\ evaluations' = evaluations
            /\ valueRet' = NoValue]_vars

C18_Witness ==
    /\ EvaluateFailed
    /\ node.eval = EvalPanic
    /\ Len(node.children) = 2
    /\ valueRet = NoValue
    /\ value = NoValue

----
(***************************************************************************)
(* CoveredBy                                                               *)
(***************************************************************************)
\* some child called returned c
SomeChildReturned(c) == \E i \in 1..Len(coveredRun.calls) : coveredRun.calls[i] = c

\* every child was asked, up to and including the first that returned
\* CoveredFalse
AskedInTurn ==
    /\ \A i \in 1..(Len(coveredRun.calls) - 1) : coveredRun.calls[i] # CoveredFalse
    /\ \/ Len(coveredRun.calls) = Len(coveredNode.children)
       \/ SomeChildReturned(CoveredFalse)

----
(***************************************************************************)
(* The classifier on the ON-clause path                                    *)
(***************************************************************************)
\* the filters and join filters attached to keyspace k
Attached(k) == baseKeyspaces[k].filters \o baseKeyspaces[k].joinfilters

\* C20: when an ON clause is classified, no filter is appended to the
\* filters or joinfilters of a keyspace whose plan is done, and a conjunct
\* that refers only to such keyspaces is attached to no keyspace.
C20_PlanDoneUntouched ==
    (classified /\ isOnclause) =>
        \A k \in Keyspaces :
           /\ k \in PlanDone => Attached(k) = <<>>
           /\ \A i \in 1..Len(Attached(k)) :
                 /\ Attached(k)[i].keyspaces \cap PlanDone = {}
                 /\ ~(CountKeySpaces(Attached(k)[i].fltrExpr, Keyspaces) \subseteq PlanDone)

\* ON a1 AND j with a planned: a1 is attached nowhere, j goes to b alone
C20_Witness ==
    /\ classified
    /\ isOnclause
    /\ pred = And(<<A1, J>>)
    /\ PlanDone = {"a"}
    /\ Attached("a") = <<>>
    /\ Len(Attached("b")) = 1
    /\ Attached("b")[1].fltrExpr = J
    /\ Attached("b")[1].keyspaces = {"b"}

----
(***************************************************************************)
(* The filters and join filters of a base keyspace                         *)
(***************************************************************************)
\* the base keyspaces an expression refers to
RefersTo(e) == CountKeySpaces(e, Keyspaces)

\* C21 as stated: after any classification every record in a filters list
\* refers to no base keyspace other than the owning one and has isJoin
\* false, and every record in a joinfilters list refers to at least two base
\* keyspaces.
C21_Original ==
    classified =>
        \A k \in Keyspaces :
           /\ \A i \in 1..Len(baseKeyspaces[k].filters) :
                 LET f == baseKeyspaces[k].filters[i]
                 IN  RefersTo(f.fltrExpr) \subseteq {k} /\ ~f.isJoin
           /\ \A i \in 1..Len(baseKeyspaces[k].joinfilters) :
                 Cardinality(RefersTo(baseKeyspaces[k].joinfilters[i].fltrExpr)) >= 2

\* C21 (amended): a record in a filters list names the owning keyspace alone
\* in its keyspaces, and refers to no base keyspace other than the owning one
\* and the keyspaces whose plan is done; where no plan is done (a WHERE
\* clause, or an ON clause before any keyspace is planned) it refers to the
\* owning keyspace alone and its isJoin is false. A record in a joinfilters
\* list refers to at least two base keyspaces whose plan is not done.
C21_FilterLists ==
    classified =>
        \A k \in Keyspaces :
           /\ \A i \in 1..Len(baseKeyspaces[k].filters) :
                 LET f == baseKeyspaces[k].filters[i]
                 IN  /\ f.keyspaces = {k}
                     /\ RefersTo(f.fltrExpr) \subseteq ({k} \cup PlanDone)
                     /\ PlanDone = {} => ~f.isJoin
           /\ \A i \in 1..Len(baseKeyspaces[k].joinfilters) :
                 LET f == baseKeyspaces[k].joinfilters[i]
                 IN  /\ Cardinality(RefersTo(f.fltrExpr) \ PlanDone) >= 2
                     /\ f.isJoin

\* ON j with a planned: j, which refers to a and b, is in the filters of b
\* with isJoin set
C21_Witness ==
    /\ classified
    /\ isOnclause
    /\ pred = J
    /\ PlanDone = {"a"}
    /\ Len(baseKeyspaces["b"].filters) = 1
    /\ baseKeyspaces["b"].filters[1].isJoin
    /\ RefersTo(baseKeyspaces["b"].filters[1].fltrExpr) = {"a", "b"}
    /\ baseKeyspaces["b"].joinfilters = <<>>

----
(***************************************************************************)
(* ORDER BY and the final projection                                       *)
(***************************************************************************)
\* the operators the SELECT appends after the plan of its subresult, up to
\* the final projection
AfterSubresult ==
    <<"Order">> \o (IF stmt.offset THEN <<"Offset">> ELSE <<>>)
                \o (IF stmt.limit THEN <<"Limit">> ELSE <<>>)

\* C22 as stated: the plan of a SELECT with ORDER BY, whatever its
\* subresult, applies a FinalProject after Order (and Offset and Limit).
C22_Original ==
    (built = "ok" /\ stmt.order)
    => ContainsInOrder(AfterSubresult \o <<"FinalProject">>, PipelineOf(plan))

\* C22 (amended): the plan of a SELECT with ORDER BY is a Sequence of the
\* subresult's plan, Order, Offset and Limit when present and, only when
\* the subresult is a subselect, a Parallel FinalProject. Over a UNION or
\* UNION ALL nothing follows Order, Offset and Limit, and no FinalProject
\* comes after the Order.
C22_FinalProjectAfterOrder ==
    (built = "ok" /\ stmt.order)
    => /\ plan.op = "Sequence"
       /\ Names(Tail(plan.children)) =
            AfterSubresult \o (IF stmt.subresult.kind = "subselect"
                               THEN <<"Parallel">> ELSE <<>>)
       /\ stmt.subresult.kind = "subselect" =>
            plan.children[Len(plan.children)].children[1].op = "FinalProject"
       /\ stmt.subresult.kind # "subselect" =>
            ~ContainsInOrder(<<"Order", "FinalProject">>, PipelineOf(plan))

\* SELECT ... UNION SELECT ... ORDER BY ... LIMIT: the plan ends with Limit
C22_Witness ==
    /\ built = "ok"
    /\ stmt.order
    /\ stmt.limit
    /\ ~stmt.offset
    /\ stmt.subresult.kind = "union"
    /\ Names(plan.children) = <<"Sequence", "Order", "Limit">>
    /\ \A o \in AllOps(plan) : o.op # "FinalProject"

----
(***************************************************************************)
(* IndexScan2 and a failed or empty span evaluation                        *)
(***************************************************************************)
SpanErrorPublished ==
    \E i \in 1..Len(producer.errors) : producer.errors[i] = "Evaluation: span"

\* C23: when span evaluation returns an error or no span, the producer never
\* calls Index.Scan2, it closes the entry channel, and the operator ends
\* having emitted no item; the Evaluation error with reason span is
\* published exactly when span evaluation returned an error.
C23_NoSpanNoScan ==
    /\ [](scanPlan.spans # "ok" =>
            /\ ~producer.scan2
            /\ indexScan.output = <<>>
            /\ producer.pc = "done" =>
                 /\ conn.closed
                 /\ SpanErrorPublished <=> scanPlan.spans = "error")
    /\ [](scanPlan.spans # "error" => ~SpanErrorPublished)
    /\ (indexScan.pc = "created" /\ scanPlan.spans # "ok"
          => <>(indexScan.pc = "done" /\ indexScan.closed /\ conn.closed
                  /\ indexScan.output = <<>>))

C23_Witness ==
    /\ scanPlan.spans = "error"
    /\ Len(scanPlan.entries) = 2
    /\ indexScan.pc = "done"
    /\ ~indexScan.stopChannel
    /\ conn.closed
    /\ ~producer.scan2
    /\ producer.errors = <<"Evaluation: span">>
    /\ indexScan.output = <<>>

----
(***************************************************************************)
(* NLNest and the runs of its child                                        *)
(***************************************************************************)
\* processItem starts the child in this step
StartsChild == nest.pc = "processItem" /\ nest'.pc = "loop"

\* the outer item being processed is the first since the nest was made or
\* reopened
FirstOuterItem == Len(nest.input) + 1 = Len(nestPlan.items)

ChildStoppedAndReopened ==
    /\ nestChild'.stops = nestChild.stops + 1
    /\ nestChild'.reopens = nestChild.reopens + 1
    /\ nestChild'.runs = nestChild.runs + 1
    /\ nestChild'.pc = "running"

ChildJustRun ==
    /\ nestChild'.stops = nestChild.stops
    /\ nestChild'.reopens = nestChild.reopens
    /\ nestChild'.runs = nestChild.runs + 1
    /\ nestChild'.pc = "running"

\* SendStop on the nest reaches the child; reopen of the nest clears
\* REOPEN_CHILD
StopAndReopenOfNest ==
    /\ (~nest.stopChannel /\ nest'.stopChannel) =>
          (nestChild'.stopChannel /\ nestChild'.stops = nestChild.stops + 1)
    /\ (nest.pc = "done" /\ nest'.pc = "created") =>
          (ANSI_REOPEN_CHILD \notin nest'.ansiFlags /\ nestChild' = NewChild)

\* C24 as stated: the child is started without a stop for the first outer
\* item after creation or reopen; for a later outer item it is stopped and
\* reopened first, unless the ON clause is constant true; reopen of the nest
\* clears REOPEN_CHILD and SendStop on the nest reaches the child.
C24_Original ==
    [][/\ StartsChild =>
            IF FirstOuterItem \/ nestPlan.onclause = "true"
            THEN ChildJustRun
            ELSE ChildStoppedAndReopened
       /\ StopAndReopenOfNest]_vars

\* C24 (amended): the child is started without a stop for the first outer
\* item after creation or reopen; for every later outer item it is stopped
\* and reopened first, also when the ON clause is constant true; reopen of
\* the nest clears REOPEN_CHILD and SendStop on the nest reaches the child.
C24_ChildReopened ==
    [][/\ StartsChild =>
            /\ FirstOuterItem <=> ANSI_REOPEN_CHILD \notin nest.ansiFlags
            /\ IF FirstOuterItem THEN ChildJustRun ELSE ChildStoppedAndReopened
       /\ StopAndReopenOfNest]_vars

\* the second outer item of the second run under ON TRUE: the child has run
\* twice in this run and was stopped and reopened in between
C24_Witness ==
    /\ nest.reopened
    /\ nestPlan.onclause = "true"
    /\ nest.pc = "loop"
    /\ nest.input = <<>>
    /\ Len(nestPlan.items) = 2
    /\ ~nest.stopChannel
    /\ nestChild.runs = 2
    /\ nestChild.stops = 1
    /\ nestChild.reopens = 1

\* the run of the child is active: it was started and has not yet notified
\* the nest of its end
ChildActive ==
    \/ nestChild.pc = "running"
    \/ nestChild.pc = "ending" /\ ~nestChild.notified

\* C25: processItem does not return while the run of the child it started
\* is active: on every way out it has received the child's notification, or
\* has told the child to stop and waited for the notification; so no run of
\* the child is active when the next one is started.
C25_ChildEndedOnReturn ==
    /\ nest.pc \in {"finish", "getItem", "processItem", "afterItems", "done"}
          => ~ChildActive
    /\ nest.pc = "finish" => (nest.n = 0 /\ nestChild.notified /\ ~nest.childChannel)

\* the ON clause failed on an inner item while the child had more to send:
\* the child was told to stop and has notified the nest
C25_Witness ==
    /\ nest.pc = "finish"
    /\ ~nest.ok
    /\ ~nest.stopChannel
    /\ nestChild.stopChannel
    /\ nestChild.rest # <<>>
    /\ nestChild.notified

----
(***************************************************************************)
(* C26, C27: the cached identity of the node and its locks                 *)
(***************************************************************************)
\* the positions at which a caller reads or writes noMoreChecks, whoAmI or
\* state of the store, and myConfig or name of localConfig
StoreReads == {"check", "fast", "been"}
StoreWrites == {"update", "slow"}
LocalReads == {"cfgRead", "cfgHit"}
LocalWrites == {"cfgMyConfig", "cfgName"}

HoldsStore(p) == cbStore.writer = p \/ p \in cbStore.readers
Steps(p) == caller'[p].pc # caller[p].pc

\* C26: localConfig.name and localConfig.myConfig, and whoAmI, state and
\* noMoreChecks of the store, are written only by a caller holding the
\* protecting mutex and are never read by a caller that does not hold it
C26_GuardedState ==
    [][\A p \in DOMAIN caller :
          Steps(p) =>
             /\ caller[p].pc \in StoreWrites => cbStore.writer = p
             /\ caller[p].pc \in StoreReads => HoldsStore(p)
             /\ caller[p].pc \in LocalWrites => localConfig.owner = p
             /\ caller[p].pc \in LocalReads => localConfig.owner = p]_vars

\* the writes alone are made under the mutex
C26_WritesGuarded ==
    [][\A p \in DOMAIN caller :
          Steps(p) =>
             /\ caller[p].pc \in StoreWrites => cbStore.writer = p
             /\ caller[p].pc \in LocalWrites => localConfig.owner = p]_vars

\* what the unguarded reads of doConfig cost: the config endpoint answers
\* with the node of the name WhoAmI gave, or with none
C26_ConfigOfOwnName ==
    \A p \in DOMAIN caller :
       (caller[p].pc = "idle" /\ caller[p].kind = "Config")
       => caller[p].result \in {NoNode, QueryNode(caller[p].name)}

\* C27: once noMoreChecks is true, whoAmI, state and noMoreChecks never change
C27_NoMoreChanges ==
    [][cbStore.noMoreChecks =>
          /\ cbStore'.noMoreChecks
          /\ cbStore'.whoAmI = cbStore.whoAmI
          /\ cbStore'.state = cbStore.state]_vars

\* the store says no more checks and a caller is still about to update it
\* with the pool services it fetched earlier
C27_StaleUpdatePending ==
    /\ cbStore.noMoreChecks
    /\ \E p \in DOMAIN caller : caller[p].pc \in {"lock1", "update"}

----
(***************************************************************************)
(* C28: the spans evalSpan2 passes on                                      *)
(***************************************************************************)
NonEmptyRange(r) == r.Low = "value" /\ r.High = "value"
AllRangesNonEmpty(ps) == \A i \in 1..Len(ps.Ranges) : NonEmptyRange(ps.Ranges[i])

\* C28: a span is in the result only if each of its ranges evaluated to a
\* non-empty low and high (its range list is passed on whole), and empty is
\* reported exactly when no span is in the result
C28_WholeSpansOnly ==
    (spanResult.done /\ ~spanResult.err)
    => /\ \A k \in 1..Len(spanResult.dspans) :
             LET ds == spanResult.dspans[k]
             IN  /\ AllRangesNonEmpty(spanInput[ds.from])
                 /\ ds.Ranges = spanInput[ds.from].Ranges
       /\ spanResult.empty <=> Len(spanResult.dspans) = 0

\* what evalSpan2 does: a span is in the result exactly when its first range
\* is non-empty, with the ranges before its first empty one
C28_LeadingRanges ==
    (spanResult.done /\ ~spanResult.err)
    => /\ \A k \in 1..Len(spanResult.dspans) :
             LET ds == spanResult.dspans[k]
                 ps == spanInput[ds.from]
             IN  /\ Len(ds.Ranges) >= 1
                 /\ ds.Ranges = SubSeq(ps.Ranges, 1, Len(ds.Ranges))
                 /\ \A i \in 1..Len(ds.Ranges) : NonEmptyRange(ds.Ranges[i])
                 /\ Len(ds.Ranges) < Len(ps.Ranges) => ~NonEmptyRange(ps.Ranges[Len(ds.Ranges) + 1])
       /\ \A i \in 1..Len(spanInput) :
             (Len(spanInput[i].Ranges) >= 1 /\ NonEmptyRange(spanInput[i].Ranges[1]))
             => \E k \in 1..Len(spanResult.dspans) : spanResult.dspans[k].from = i
       /\ spanResult.empty <=> Len(spanResult.dspans) = 0

\* a span was passed on with fewer ranges than the plan gave it
C28_ShortenedSpan ==
    /\ spanResult.done /\ ~spanResult.err
    /\ \E k \in 1..Len(spanResult.dspans) :
          Len(spanResult.dspans[k].Ranges) < Len(spanInput[spanResult.dspans[k].from].Ranges)

----
(***************************************************************************)
(* C29: what Authorize lets through                                        *)
(***************************************************************************)
\* the credential is allowed the privilege
Grants(credential, privilege) ==
    \/ privilege = PRIV_READ /\ credential \in {"reader", "admin"}
    \/ privilege = PRIV_SYS_ADMIN /\ credential = "admin"

GrantsAll(credential, privileges) ==
    \A i \in 1..Len(privileges) : Grants(credential, privileges[i])

\* C29: Authorize succeeds only if there are credentials and an authenticated
\* credential is allowed every privilege of the list; it fails when a
\* privilege of the list is allowed to no credential or the list is empty
C29_EveryPrivilege ==
    authResult # "none"
    => /\ authResult = "ok" =>
             /\ authRequest.credentials # {}
             /\ \E c \in authRequest.credentials : GrantsAll(c, authRequest.privileges)
       /\ authRequest.privileges = <<>> => authResult = "error"
       /\ (\E i \in 1..Len(authRequest.privileges) :
              \A c \in authRequest.credentials : ~Grants(c, authRequest.privileges[i]))
          => authResult = "error"

\* what Authorize tests: the first privilege of the list, for one credential
C29_FirstPrivilege ==
    authResult # "none"
    => /\ authResult = "ok" =>
             /\ authRequest.privileges # <<>>
             /\ \E c \in authRequest.credentials : Grants(c, authRequest.privileges[1])
       /\ (authRequest.credentials = {} \/ authRequest.privileges = <<>>)
          => authResult = "error"

\* a request for two privileges was let through on the first alone
C29_LetThrough ==
    /\ authResult = "ok"
    /\ \A c \in authRequest.credentials : ~GrantsAll(c, authRequest.privileges)

----
(***************************************************************************)
(* C30: what Build returns for a statement of any kind                     *)
(***************************************************************************)
StatementOf(st) == IF st.kind = "explain" THEN st.statement ELSE st
IsDML(st) == st.kind \in {"insert", "upsert", "delete", "update", "merge"}

\* C30: for a statement of any kind, also under EXPLAIN, Build returns an
\* operator and no error, or no operator and an error; it does not panic
C30_OperatorOrError ==
    built # "no"
    => \/ built = "ok" /\ plan # NilOp
       \/ built = "error" /\ plan = NilOp

\* what Build does: it panics exactly on the DML statements, also under
\* EXPLAIN, and otherwise returns an operator or an error
C30_PanicsOnDML ==
    built # "no"
    => /\ built = "panic" <=> IsDML(StatementOf(stmt))
       /\ built = "ok" => plan # NilOp
       /\ built = "error" => plan = NilOp

\* Build has panicked on the EXPLAIN of a DML statement
C30_ExplainPanicked ==
    built = "panic" /\ stmt.kind = "explain"

====
